---- MODULE Spec2Model ----
(***************************************************************************)
(* A model of bdat.py: the table model (BdatTable), the global hashed-ID   *)
(* index, the batch driver (main) and the cross-reference engine           *)
(* (add_xref, resolve_field_xrefs, resolve_xrefs).                         *)
(*                                                                         *)
(* Python values are tagged tuples, so that values of different Python     *)
(* types can be compared:                                                  *)
(*    <<"int", n>>            an int                                       *)
(*    <<"str", s>>            a str                                        *)
(*    <<"none">>              None                                         *)
(*    <<"link", v, t, r>>     the tuple (value, link_table, link_row)      *)
(*    <<"tuple", e0, e1, ..>> the tuple of the elements of an array cell   *)
(* Row and field indices are Python's (0-based); sequences are indexed     *)
(* with index + 1.                                                         *)
(***************************************************************************)
EXTENDS Integers, Sequences, FiniteSets, TLC

VARIABLES
    disk,            \* file name -> what Bdat._parse makes of the file's bytes
    args,            \* args.files, the input files named on the command line
    files,           \* the part of args.files the loop of main has yet to read
    tables,          \* main's dict "tables": table name -> BdatTable
    order,           \* insertion order of the keys of "tables"
    global_hashmap,  \* the module-level dict _global_hashmap
    pc,              \* position of main: parse, resolve, print, done, failed
    err,             \* class name of the exception that ended the run, or ""
    job,             \* resolve_xrefs: index of the column loop being run
    row,             \* resolve_xrefs: next row of that column loop
    runs,            \* number of calls of resolve_xrefs started so far
    built,           \* history: number of BdatTable objects constructed
    claimants,       \* history: hashed ID -> the constructions that claimed it
    orig,            \* history: "tables" as it was when resolve_xrefs was first called
    first,           \* history: "tables" as the first call of resolve_xrefs left it
    warned,          \* history: number of 'not matched' warnings printed
    written,         \* names of the tables whose HTML file has been written
    call             \* a method called on its own, outside main: the call and its outcome

vars == <<disk, args, files, tables, order, global_hashmap, pc, err, job, row, runs,
          built, claimants, orig, first, warned, written, call>>

----------------------------------------------------------------------------
(* Python values *)

IntV(n) == <<"int", n>>
StrV(s) == <<"str", s>>
NoneV == <<"none">>
IsInt(v) == v[1] = "int"
IsStr(v) == v[1] = "str"
\* a tuple of numbers, as struct.unpack makes for a cell of an array field of
\* a version 1 table
Array(values) == <<"tuple">> \o values
\* isinstance(x, tuple): cross-referenced cells and cells of array fields
IsTuple(v) == v[1] \in {"link", "tuple"}
Link(value, link_table, link_row) == <<"link", value, link_table, link_row>>

\* None where a row index is expected (id_to_row, dict.get)
NoRow == -1

\* f' ({param})' for an int or str param
PyStr(v) == IF IsInt(v) THEN ToString(v[2]) ELSE v[2]

HexDigits == {"0", "1", "2", "3", "4", "5", "6", "7", "8", "9",
              "A", "B", "C", "D", "E", "F"}

\* hash_re = re.compile(r'<([0-9A-F]{8})>$'); hash_re.match(value) on a str.
\* '$' also matches before a final newline; strings with newlines are not modelled.
hash_re_match(s) ==
    /\ Len(s) = 10
    /\ SubSeq(s, 1, 1) = "<"
    /\ SubSeq(s, 10, 10) = ">"
    /\ \A i \in 2..9 : SubSeq(s, i, i) \in HexDigits

\* re.match(r'^[0-9]+$', id) on a str
Digits == {"0", "1", "2", "3", "4", "5", "6", "7", "8", "9"}
digits_match(s) ==
    /\ Len(s) > 0
    /\ \A i \in 1..Len(s) : SubSeq(s, i, i) \in Digits

----------------------------------------------------------------------------
(* BdatField, BdatTable *)

BdatField(name, value_type) == [name |-> name, value_type |-> value_type]

\* BdatField(name, BdatFieldType.ARRAY, value_type, array_size)
BdatArray(name, value_type, size) ==
    [name |-> name, value_type |-> value_type, array_size |-> size]
\* field.array_size, 0 for None
array_size(field) == IF "array_size" \in DOMAIN field THEN field.array_size ELSE 0

RECURSIVE hashid_of(_, _)
\* the loop "self._hashid_map[id] = row" over rows 0..n-1: a later row wins
hashid_of(rows, n) ==
    IF n = 0 THEN <<>>
    ELSE LET m == hashid_of(rows, n - 1)
             id == rows[n][2]
         IN [k \in (DOMAIN m) \cup {id} |-> IF k = id THEN n - 1 ELSE m[k]]

\* the condition of the "if" at the head of the hashed-ID loop
has_hashid(fields) ==
    /\ fields[2].name \in {"ID", "label"}
    /\ fields[2].value_type = "HSTRING"

\* BdatTable.__init__ raises IndexError on self._fields[1] when the field
\* list holds the implicit ID field alone; only ValueError is caught
init_raises(fields) == Len(fields) < 2

\* the object BdatTable.__init__ builds; _refs starts as [None] * len(rows),
\* and None reads like the empty set everywhere _refs is used
BdatTable(name, fields, rows) ==
    [name |-> name, fields |-> fields, rows |-> rows,
     refs |-> [i \in 1..Len(rows) |-> {}],
     hashid_map |-> IF has_hashid(fields) THEN hashid_of(rows, Len(rows)) ELSE <<>>]

\* the pair (None, None): no table is named "" and no row index is NoRow
NoEntry == <<"", NoRow>>

\* one iteration of the hashed-ID loop on _global_hashmap
global_claim_last_wins(g, name, id, r) ==
    [k \in (DOMAIN g) \cup {id} |-> IF k = id THEN <<name, r>> ELSE g[k]]

global_claim(g, name, id, r) ==
    [k \in (DOMAIN g) \cup {id} |->
        IF k = id THEN (IF id \in DOMAIN g THEN NoEntry ELSE <<name, r>>)
        ELSE g[k]]

RECURSIVE global_after_rows(_, _, _, _)
global_after_rows(g, name, rows, n) ==
    IF n = 0 THEN g
    ELSE global_claim(global_after_rows(g, name, rows, n - 1), name, rows[n][2], n - 1)

\* _global_hashmap after BdatTable.__init__(name, fields, rows)
global_after(g, name, fields, rows) ==
    IF has_hashid(fields) THEN global_after_rows(g, name, rows, Len(rows)) ELSE g

global_id_lookup(g, id) == IF id \in DOMAIN g THEN g[id] ELSE NoEntry

num_fields(t) == Len(t.fields)
num_rows(t) == Len(t.rows)

has_field(t, name) == \E i \in 2..Len(t.fields) : t.fields[i].name = name

\* field_index: the first field of that name, field 0 not considered;
\* raises ValueError when has_field is false
field_index(t, name) ==
    (CHOOSE i \in 2..Len(t.fields) :
        /\ t.fields[i].name = name
        /\ \A k \in 2..(i - 1) : t.fields[k].name # name) - 1

\* id_to_row raises IndexError on self._rows[0][0] for an int id and no rows
id_to_row_raises(t, id) == IsInt(id) /\ Len(t.rows) = 0

id_to_row(t, id) ==
    IF IsInt(id)
    THEN LET row_index == id[2] - t.rows[1][1][2]
         IN IF row_index >= 0 /\ row_index < Len(t.rows) THEN row_index ELSE NoRow
    ELSE IF id \in DOMAIN t.hashid_map THEN t.hashid_map[id] ELSE NoRow

\* "assert row < len(self._rows)" of get, set and addref. A row of None
\* raises TypeError on the comparison instead (see row_error).
row_ok(t, r) == r >= 0 /\ r < Len(t.rows)
row_error(t, r) ==
    IF r = NoRow THEN "TypeError" ELSE IF row_ok(t, r) THEN "" ELSE "AssertionError"

get(t, r, f) ==
    LET cell == t.rows[r + 1][f + 1]
    IN IF IsTuple(cell) THEN cell[2] ELSE cell

\* set(row, field, value, link_table, link_row); link_table = "" stands for
\* the default None (a table name is never empty)
set(t, r, f, value, link_table, link_row) ==
    [t EXCEPT !.rows[r + 1][f + 1] =
        IF link_table # "" THEN Link(value, link_table, link_row) ELSE value]

\* an addref that starts a new set on every call
addref_fresh(t, r, ref_name, ref_row, ref_value) ==
    [t EXCEPT !.refs[r + 1] = {<<ref_name, ref_row, ref_value>>}]

addref(t, r, ref_name, ref_row, ref_value) ==
    [t EXCEPT !.refs[r + 1] = @ \cup {<<ref_name, ref_row, ref_value>>}]

----------------------------------------------------------------------------
(* The cross-reference rule tables.  The dictionaries of bdat.py are cut    *)
(* down to the entries below, each copied as written there; the collection *)
(* of tables the model loads is chosen to fit them.                        *)

\* A rule target, as resolve_field_xrefs reads it: target[0] made list-like,
\* target[1] (field = "" when len(target) = 1), target[2] (special = "" when
\* len(target) <= 2)
Target(target_tables, field, special) ==
    [tables |-> target_tables, field |-> field, special |-> special]

row_name_fields ==
    [n \in {"BTL_Achievement", "BTL_Arts_PC", "BTL_MotionState", "FLD_NpcList",
            "FLD_NpcResource",
            "ITM_Accessory", "ITM_Collection", "ITM_Collepedia", "ITM_Cylinder",
            "ITM_Gem", "ITM_Info", "ITM_Precious"} |->
        CASE n = "BTL_Achievement" -> "Caption"
          [] n = "BTL_MotionState" -> "StateName"
          [] n = "FLD_NpcList" -> "field_7F0A3296"
          [] n = "ITM_Collepedia" -> "Text"
          [] OTHER -> "Name"]

\* text_xrefs in dictionary order, one <<table, field, target>> per field
text_xrefs ==
    << <<"BTL_Achievement", "Caption", Target(<<"825EDC88">>, "name", "achievement")>>,
       <<"FLD_NpcList", "field_7F0A3296", Target(<<"FLD_NpcResource">>, "Name", "")>>,
       <<"FLD_NpcResource", "Name", Target(<<"6436BD4A">>, "name", "")>>,
       <<"FLD_NpcResource", "Nickname", Target(<<"EDFB4E9F">>, "name", "")>> >>

refset_arts_pc == Target(<<"BTL_Arts_PC">>, "", "")
refset_item ==
    Target(<<"ITM_Accessory", "ITM_Collection", "ITM_Collepedia", "ITM_Cylinder",
             "ITM_Gem", "ITM_Info", "ITM_Precious">>, "", "")
refset_npc == Target(<<"FLD_NpcList">>, "", "")
refset_talent == Target(<<"BTL_Talent">>, "", "")

\* field_xrefs in dictionary order, one <<field, target>> per field
field_xrefs ==
    << <<"ShopItem1", refset_item>>,
       <<"NpcID", refset_npc>> >>

\* table_xrefs, one <<table, field, target>> per field, fields in dictionary order
table_xrefs ==
    << <<"QST_TaskTalk", "TargetID", refset_npc>>,
       <<"B971C420", "Talent", refset_talent>>,
       <<"B971C420", "ArtsID", Target(<<"BTL_Arts_PC", "E29EF7E9">>, "", "")>> >>

----------------------------------------------------------------------------
(* add_xref *)

\* What an operation on the collection leaves: the collection, the class of
\* the exception it raised ("" for none), the warnings it printed
Result(tabs, e, w) == [tables |-> tabs, err |-> e, warned |-> w]

\* a row-name lookup that knows the row ID alone
row_id_value(t, r) == get(t, r, 0)

\* the row-name lookup of add_xref: the value of t's row-name field in row r
\* when t has a row-name rule, else ""; then the row ID when that is ""
row_name_value(t, r) ==
    LET v == IF t.name \in DOMAIN row_name_fields
             THEN get(t, r, field_index(t, row_name_fields[t.name]))
             ELSE StrV("")
    IN IF v = StrV("") THEN get(t, r, 0) ELSE v

row_name_raises(t) ==
    t.name \in DOMAIN row_name_fields /\ ~has_field(t, row_name_fields[t.name])

\* a link that records the index of the target row where its ID is meant
link_row_index(target_table, target_row) == IntV(target_row)

\* the last argument of table.set(...) in add_xref: the ID of the target row
link_row(target_table, target_row) == get(target_table, target_row, 0)

add_xref(tabs, name, r, field_idx, value, target_name, target_row) ==
    LET target_table == tabs[target_name]
    IN IF value = NoneV /\ row_name_raises(target_table)
       THEN Result(tabs, "ValueError", 0)
       ELSE IF row_error(target_table, target_row) # ""
       THEN Result(tabs, row_error(target_table, target_row), 0)
       ELSE LET shown == IF value = NoneV
                         THEN row_name_value(target_table, target_row)
                         ELSE value
                linked == [tabs EXCEPT ![name] =
                              set(@, r, field_idx, shown, target_table.name,
                                  link_row(target_table, target_row))]
                table == linked[name]
            IN IF row_name_raises(table)
               THEN Result(linked, "ValueError", 0)
               ELSE Result([linked EXCEPT ![target_name] =
                               addref(@, target_row, table.name, get(table, r, 0),
                                      row_name_value(table, r))],
                           "", 0)

----------------------------------------------------------------------------
(* resolve_field_xrefs, one iteration of its loop over the rows *)

\* the exception the "Duplicate ID" branch is written to raise
duplicate_id_raise == "ValueError"

\* The exception the "Duplicate ID" branch ends in.  The message of the
\* ValueError it means to raise reads target_table_name, a name bound neither
\* in resolve_field_xrefs nor in the module: building the message raises
\* NameError, and no ValueError is ever made.
duplicate_id_error == "NameError"

Match(name, r, e) == [name |-> name, row |-> r, err |-> e]

RECURSIVE find_target(_, _, _, _, _, _)
\* the loop "for name in target_tables" from its i-th name on, with
\* (target_table, target_row) = (found, found_row) so far
find_target(tabs, names, i, id, found, found_row) ==
    IF i > Len(names) THEN Match(found, found_row, "")
    ELSE IF names[i] \notin DOMAIN tabs THEN Match(found, found_row, "KeyError")
    ELSE IF id_to_row_raises(tabs[names[i]], id) THEN Match(found, found_row, "IndexError")
    ELSE LET test_row == id_to_row(tabs[names[i]], id)
         IN IF test_row = NoRow
            THEN find_target(tabs, names, i + 1, id, found, found_row)
            ELSE IF found_row = NoRow
            THEN find_target(tabs, names, i + 1, id, names[i], test_row)
            ELSE Match(found, found_row, duplicate_id_error)

\* field.name.startswith('NextPurpose')
starts_NextPurpose(s) == Len(s) >= 11 /\ SubSeq(s, 1, 11) = "NextPurpose"

\* the branch "if target_row is None": the suppressed cases, else a warning
unmatched(tabs, table, field_idx, id) ==
    LET fname == table.fields[field_idx + 1].name
    IN IF /\ table.name = "QST_Purpose"
          /\ starts_NextPurpose(fname)
          /\ id \in {IntV(30000), IntV(30001)}
       THEN Result(tabs, "", 0)
       ELSE IF table.name = "QST_TaskTalk" /\ fname = "TargetID"
       THEN IF ~IsStr(id) THEN Result(tabs, "TypeError", 0)   \* re.match on an int
            ELSE IF digits_match(id[2]) THEN Result(tabs, "", 0)
            ELSE Result(tabs, "", 1)
       ELSE Result(tabs, "", 1)

\* the special rule 'achievement'
achievement(tabs, name, r, field_idx, target_name, target_row, value) ==
    LET table == tabs[name]
    IN IF \E f \in {"AchieveType", "Param1", "Param2"} : ~has_field(table, f)
       THEN Result(tabs, "ValueError", 0)
       ELSE LET idx_type == field_index(table, "AchieveType")
                type == get(table, r, idx_type)
                param1 == get(table, r, idx_type)
                param2 == get(table, r, idx_type)
                suffix(p) == StrV(value[2] \o " (" \o PyStr(p) \o ")")
            IN IF ~IsInt(type) THEN Result(tabs, "TypeError", 0)
               ELSE IF type[2] <= 7
               THEN IF ~IsStr(value) THEN Result(tabs, "TypeError", 0)
                    ELSE add_xref(tabs, name, r, field_idx, suffix(param1),
                                  target_name, target_row)
               ELSE IF type[2] # 255
               THEN IF ~IsStr(value) THEN Result(tabs, "TypeError", 0)
                    ELSE add_xref(tabs, name, r, field_idx, suffix(param2),
                                  target_name, target_row)
               ELSE add_xref(tabs, name, r, field_idx, value, target_name, target_row)

\* the branch "if len(target) > 1" and the call of add_xref, for a row whose
\* ID matched row target_row of table target_name.  The special rule
\* 'enhance' belongs to BTL_Enhance alone, which the model does not load.
linked(tabs, name, r, field_idx, target, id, target_name, target_row) ==
    LET target_table == tabs[target_name]
    IN IF target.field = ""
       THEN add_xref(tabs, name, r, field_idx, NoneV, target_name, target_row)
       ELSE IF ~has_field(target_table, target.field)
       THEN Result(tabs, "ValueError", 0)
       ELSE LET target_field == field_index(target_table, target.field)
                value == get(target_table, target_row, target_field)
            IN IF value = NoneV \/ value = StrV("")
               THEN add_xref(tabs, name, r, field_idx, id, target_name, target_row)
               ELSE IF target.special = ""
               THEN add_xref(tabs, name, r, field_idx, value, target_name, target_row)
               ELSE IF target.special = "urobody_name"
               THEN IF row_error(target_table, target_row + 81) # ""
                    THEN Result(tabs, row_error(target_table, target_row + 81), 0)
                    ELSE add_xref(tabs, name, r, field_idx,
                                  get(target_table, target_row + 81, target_field),
                                  target_name, target_row + 81)
               ELSE IF target.special = "achievement"
               THEN achievement(tabs, name, r, field_idx, target_name, target_row, value)
               ELSE Result(tabs, "ValueError", 0)

\* a test for the empty reference that knows the empty string alone
is_empty_str(value) == value = StrV("")

\* "if value == 0 or value == ''"
is_empty(value) == value = IntV(0) \/ value = StrV("")

\* the body of "for row in range(table.num_rows)" for row r
resolve_field_row(tabs, name, r, field_idx, target) ==
    LET table == tabs[name]
        value == get(table, r, field_idx)
    IN IF is_empty(value)
       THEN Result([tabs EXCEPT ![name] = set(@, r, field_idx, StrV(""), "", NoneV)], "", 0)
       ELSE LET m == find_target(tabs, target.tables, 1, value, "", NoRow)
            IN IF m.err # "" THEN Result(tabs, m.err, 0)
               ELSE IF m.row = NoRow THEN unmatched(tabs, table, field_idx, value)
               ELSE linked(tabs, name, r, field_idx, target, value, m.name, m.row)

----------------------------------------------------------------------------
(* resolve_xrefs: the value-dependent rule and the global hashed-ID pass *)

\* the table the if/elif chain on AchieveType picks, "" for None
achievement_target(type) ==
    IF type[2] \in {9, 12} THEN "2521C473"
    ELSE IF type[2] \in {10, 11} THEN "BTL_Arts_PC"
    ELSE IF type[2] >= 13 /\ type[2] <= 17 THEN "BTL_Skill_PC"
    ELSE ""

\* the body of the loop over the rows of BTL_Achievement for row r
achievement_row(tabs, name, r) ==
    LET table == tabs[name]
        idx_type == field_index(table, "AchieveType")
        idx_param1 == field_index(table, "Param1")
        type == get(table, r, idx_type)
        param1 == get(table, r, idx_param1)
    IN IF ~IsInt(type) THEN Result(tabs, "TypeError", 0)   \* type >= 13 on a str
       ELSE IF achievement_target(type) = "" THEN Result(tabs, "", 0)
       ELSE IF achievement_target(type) \notin DOMAIN tabs THEN Result(tabs, "KeyError", 0)
       ELSE LET target_table == tabs[achievement_target(type)]
            IN IF id_to_row_raises(target_table, param1)
               THEN Result(tabs, "IndexError", 0)
               ELSE IF ~has_field(target_table, row_name_fields[target_table.name])
               THEN Result(tabs, "ValueError", 0)
               ELSE LET target_row == id_to_row(target_table, param1)
                        target_field ==
                            field_index(target_table, row_name_fields[target_table.name])
                    IN IF row_error(target_table, target_row) # ""
                       THEN Result(tabs, row_error(target_table, target_row), 0)
                       ELSE LET value == get(target_table, target_row, target_field)
                            IN add_xref(tabs, name, r, idx_param1,
                                        IF value = StrV("") THEN param1 ELSE value,
                                        target_table.name, target_row)

\* a hashed-ID pass that looks up the digits the pattern captures, m.group(1),
\* where the index is keyed by the whole placeholder
hash_row_group1(tabs, g, name, r, field_idx) ==
    LET value == get(tabs[name], r, field_idx)
    IN IF IsStr(value) /\ hash_re_match(value[2])
       THEN LET found == global_id_lookup(g, StrV(SubSeq(value[2], 2, 9)))
            IN IF found[1] = "" THEN Result(tabs, "", 0)
               ELSE IF found[1] \notin DOMAIN tabs THEN Result(tabs, "KeyError", 0)
               ELSE add_xref(tabs, name, r, field_idx, NoneV, found[1], found[2])
       ELSE Result(tabs, "", 0)

\* the body of the loop over the rows of a HashedString field for row r
hash_row(tabs, g, name, r, field_idx) ==
    LET value == get(tabs[name], r, field_idx)
    IN IF IsStr(value) /\ hash_re_match(value[2])
       THEN LET found == global_id_lookup(g, value)
            IN IF found[1] = "" THEN Result(tabs, "", 0)
               ELSE IF found[1] \notin DOMAIN tabs THEN Result(tabs, "KeyError", 0)
               ELSE add_xref(tabs, name, r, field_idx, NoneV, found[1], found[2])
       ELSE Result(tabs, "", 0)

----------------------------------------------------------------------------
(* resolve_xrefs as a list of column loops ("jobs"), in the order it runs   *)
(* them.  Field names and types never change, so the list is fixed once    *)
(* the collection is loaded.                                               *)

Job(kind, table, field, target) ==
    [kind |-> kind, table |-> table, field |-> field, target |-> target]

NoTarget == Target(<<>>, "", "")

\* the first two loops: every table of text_xrefs but FLD_NpcList
\* ("force after FLD_NpcResource"), then FLD_NpcList
text_jobs ==
    LET early == SelectSeq(text_xrefs, LAMBDA e : e[1] # "FLD_NpcList")
        late == SelectSeq(text_xrefs, LAMBDA e : e[1] = "FLD_NpcList")
        as_job(e) == Job("text", e[1], e[2], e[3])
    IN [i \in 1..Len(early) |-> as_job(early[i])] \o [i \in 1..Len(late) |-> as_job(late[i])]

RECURSIVE hash_jobs(_, _)
\* "for field_idx in range(2, table.num_fields)", HashedString fields only,
\* from field index i on
hash_jobs(t, i) ==
    IF i >= num_fields(t) THEN <<>>
    ELSE (IF t.fields[i + 1].value_type = "HSTRING"
          THEN <<Job("hash", t.name, t.fields[i + 1].name, NoTarget)>>
          ELSE <<>>) \o hash_jobs(t, i + 1)

\* a loop body that runs the generic field rules before the table's own
table_jobs_generic_first(t) ==
    LET own == SelectSeq(table_xrefs, LAMBDA e : e[1] = t.name)
        generic == SelectSeq(field_xrefs, LAMBDA e : has_field(t, e[1]))
    IN (IF t.name = "BTL_Achievement"
        THEN <<Job("valdep", t.name, "Param1", NoTarget)>> ELSE <<>>)
       \o [i \in 1..Len(generic) |-> Job("field", t.name, generic[i][1], generic[i][2])]
       \o [i \in 1..Len(own) |-> Job("table", t.name, own[i][2], own[i][3])]
       \o hash_jobs(t, 2)

\* the body of "for name, table in tables.items()"
table_jobs(t) ==
    LET own == SelectSeq(table_xrefs, LAMBDA e : e[1] = t.name)
        \* try: field_idx = table.field_index(field) ... except ValueError: pass
        generic == SelectSeq(field_xrefs, LAMBDA e : has_field(t, e[1]))
    IN (IF t.name = "BTL_Achievement"
        THEN <<Job("valdep", t.name, "Param1", NoTarget)>> ELSE <<>>)
       \o [i \in 1..Len(own) |-> Job("table", t.name, own[i][2], own[i][3])]
       \o [i \in 1..Len(generic) |-> Job("field", t.name, generic[i][1], generic[i][2])]
       \o hash_jobs(t, 2)

RECURSIVE all_table_jobs(_, _, _)
all_table_jobs(tabs, ord, i) ==
    IF i > Len(ord) THEN <<>>
    ELSE table_jobs(tabs[ord[i]]) \o all_table_jobs(tabs, ord, i + 1)

Jobs(tabs, ord) == text_jobs \o all_table_jobs(tabs, ord, 1)

\* what is raised before the first row of a job is looked at
job_start_error(tabs, j) ==
    IF j.kind = "text" /\ j.table \notin DOMAIN tabs THEN "KeyError"
    ELSE IF j.kind \in {"text", "table"} /\ ~has_field(tabs[j.table], j.field)
    THEN "ValueError"
    ELSE IF /\ j.kind = "valdep"
            /\ (~has_field(tabs[j.table], "AchieveType") \/ ~has_field(tabs[j.table], "Param1"))
    THEN "ValueError"
    ELSE ""

Position(p, e, j, r) == [pc |-> p, err |-> e, job |-> j, row |-> r]

RECURSIVE enter(_, _, _)
\* control reaches job number j: past the last job resolve_xrefs returns, a
\* job over a table without rows does nothing
enter(tabs, ord, j) ==
    IF j > Len(Jobs(tabs, ord)) THEN Position("print", "", 0, 0)
    ELSE IF job_start_error(tabs, Jobs(tabs, ord)[j]) # ""
    THEN Position("failed", job_start_error(tabs, Jobs(tabs, ord)[j]), j, 0)
    ELSE IF num_rows(tabs[Jobs(tabs, ord)[j].table]) = 0 THEN enter(tabs, ord, j + 1)
    ELSE Position("resolve", "", j, 0)

----------------------------------------------------------------------------
(* The input files.  A file is modelled by what Bdat._parse makes of its    *)
(* bytes: a format error, or the (name, fields, rows) of its tables in     *)
(* file order, each handed to BdatTable().                                 *)

\* number of distinct unresolved hashed-string values the files draw on
NumHashes == 2

RawHashes == 10..(9 + NumHashes)

\* the dictionary "hashes", cut down to three of its entries
hashes == (0 :> StrV("")) @@ (496655147 :> NoneV) @@ (576023058 :> StrV("gimmickEnemyAff"))

unhash(hash, default) ==
    IF hash \in DOMAIN hashes /\ hashes[hash] # NoneV THEN hashes[hash][2] ELSE default

RECURSIVE HexN(_, _)
\* the last k digits of n in upper-case hexadecimal
HexN(n, k) ==
    IF k = 0 THEN ""
    ELSE HexN(n \div 16, k - 1) \o SubSeq("0123456789ABCDEF", (n % 16) + 1, (n % 16) + 1)

\* the decoded value of a HashedString cell holding the 32-bit value h:
\* unhash(value, f'<{value:08X}>')
hstring(h) == StrV(unhash(h, "<" \o HexN(h, 8) \o ">"))

IdField == BdatField("ID", "UINT32")
Tab(name, fields, rows) == [name |-> name, fields |-> fields, rows |-> rows]
File(ts) == [ok |-> TRUE, tables |-> ts]
BadFile == [ok |-> FALSE, tables |-> <<>>]

MsgTable(name, text) ==
    Tab(name, <<IdField, BdatField("name", "STRING")>>, << <<IntV(1), StrV(text)>> >>)

ItemTable(name, id, field, text) ==
    Tab(name, <<IdField, BdatField(field, "STRING")>>, << <<IntV(id), StrV(text)>> >>)

SysFile == File(<< Tab("BTL_LvRev", <<IdField, BdatField("Lv", "UINT8")>>,
                       << <<IntV(1), IntV(1)>> >>) >>)

\* an archive table with field count 0 and no rows, as the gimmick* tables are
SysFileBare == File(<< Tab("BTL_LvRev", <<IdField, BdatField("Lv", "UINT8")>>,
                           << <<IntV(1), IntV(1)>> >>),
                       Tab("gimmickEnemyAff", <<IdField>>, <<>>) >>)

\* BTL_MotionState without the field StateName its row-name rule reads
SysFileMotion == File(<< Tab("BTL_LvRev", <<IdField, BdatField("Lv", "UINT8")>>,
                             << <<IntV(1), IntV(1)>> >>),
                         Tab("BTL_MotionState", <<IdField, BdatField("NpcID", "UINT16")>>,
                             << <<IntV(1), IntV(1)>>, <<IntV(2), IntV(2)>> >>) >>)

MsgFile(text) == File(<< MsgTable("6436BD4A", text), MsgTable("825EDC88", "Win") >>)

NpcResource(a, n) ==
    Tab("FLD_NpcResource",
        <<IdField, BdatField("ID", "HSTRING"), BdatField("Name", "UINT16"),
          BdatField("Nickname", "UINT16")>>,
        << <<IntV(1), hstring(a), IntV(n), IntV(0)>> >>)

NpcFile(a, n, b, c) ==
    File(<< NpcResource(a, n),
            Tab("FLD_NpcList",
                <<IdField, BdatField("ID", "HSTRING"), BdatField("field_7F0A3296", "HSTRING")>>,
                << <<IntV(1), hstring(b), hstring(c)>>,
                   <<IntV(2), hstring(255), hstring(10)>> >>) >>)

DlcFile(a) == File(<< NpcResource(a, 1) >>)

\* a file with two tables of one name
DlcFileTwice == File(<< NpcResource(11, 1), NpcResource(11, 2) >>)

BtlFile(type, p1, cap) ==
    File(<< Tab("BTL_Achievement",
                <<IdField, BdatField("AchieveType", "UINT8"), BdatField("Param1", "UINT32"),
                  BdatField("Param2", "UINT32"), BdatField("Caption", "UINT16")>>,
                << <<IntV(1), IntV(type), IntV(p1), IntV(5), IntV(cap)>>,
                   <<IntV(2), IntV(11), IntV(2), IntV(6), IntV(1)>> >>),
            Tab("BTL_Arts_PC", <<IdField, BdatField("Name", "STRING")>>,
                << <<IntV(1), StrV("Slash")>>, <<IntV(2), StrV("")>> >>) >>)

ChnFile(rows, x) ==
    File(<< Tab("E29EF7E9", <<IdField, BdatField("PC01", "UINT8")>>,
                [i \in 1..rows |-> <<IntV(1 + i), IntV(0)>>]),
            Tab("B971C420",
                <<IdField, BdatField("Talent", "UINT8"), BdatField("ArtsID", "UINT16")>>,
                << <<IntV(1), IntV(0), IntV(x)>>, <<IntV(2), IntV(0), IntV(1)>> >>) >>)

\* TargetID as a HashedString or String column (t a str) or an integer one
QstFile(t) ==
    File(<< Tab("QST_TaskTalk",
                <<IdField, BdatField("TargetID", IF IsStr(t) THEN "HSTRING" ELSE "UINT32")>>,
                << <<IntV(1), t>>,
                   <<IntV(2), IF IsStr(t) THEN hstring(255) ELSE IntV(2)>> >>) >>)

\* a table parser that gives every row the base ID
row_id_base(base_id, i) == IntV(base_id)

\* row = [base_id + i], the first cell of the row at index i
row_id(base_id, i) == IntV(base_id + i)

\* the rows a table parser makes of row_count row records, given the cells
\* decoded from each record
parsed_rows(base_id, cells) ==
    [i \in 1..Len(cells) |-> <<row_id(base_id, i - 1)>> \o cells[i]]

\* what _parseTable1 hands to BdatTable(); base_id is kept for reference
Table1(name, fields, base_id, cells) ==
    [name |-> name, fields |-> fields, rows |-> parsed_rows(base_id, cells),
     base_id |-> base_id]

\* what _parseTable2 hands to BdatTable(); base_id is kept for reference
Table2(name, fields, base_id, cells) ==
    [name |-> name, fields |-> fields, rows |-> parsed_rows(base_id, cells),
     base_id |-> base_id]

\* a version 1 file: a table with an array field of the name of a generic rule
OldFile(base_id, a) ==
    File(<< Table1("EVT_Old", <<IdField, BdatArray("NpcID", "UINT16", 2)>>, base_id,
                   << << Array(<<IntV(a), IntV(2)>>) >>,
                      << Array(<<IntV(0), IntV(0)>>) >>,
                      << Array(<<IntV(9), IntV(9)>>) >> >>) >>)

\* QST_TaskTalk with rows numbered from base_id
QstFileAt(base_id) ==
    File(<< Table2("QST_TaskTalk",
                   <<IdField, BdatField("TargetID", "HSTRING"), BdatField("NpcID", "UINT16")>>,
                   base_id,
                   << <<hstring(11), IntV(1)>>, <<hstring(255), IntV(2)>> >>) >>)

\* QST_TaskTalk with a column for each kind of rule: TargetID has a per-table
\* rule, NpcID a generic rule, Memo is a HashedString column past field 1
\* (a hash some row owns in row 1, a hash no row owns in row 2)
QstFileNpc ==
    File(<< Tab("QST_TaskTalk",
                <<IdField, BdatField("TargetID", "HSTRING"), BdatField("NpcID", "UINT16"),
                  BdatField("Memo", "HSTRING")>>,
                << <<IntV(1), hstring(11), IntV(1), hstring(10)>>,
                   <<IntV(2), hstring(255), IntV(2), hstring(254)>> >>) >>)

ItmFile(k, s) ==
    File(<< ItemTable("ITM_Accessory", 1, "Name", "Ring"),
            ItemTable("ITM_Collection", k, "Name", "Herb"),
            ItemTable("ITM_Collepedia", 3, "Text", ""),
            ItemTable("ITM_Cylinder", 4, "Name", "Tube"),
            ItemTable("ITM_Gem", 5, "Name", "Gem"),
            ItemTable("ITM_Info", 6, "Name", "Note"),
            ItemTable("ITM_Precious", 7, "Name", "Key"),
            Tab("MNU_ShopTable", <<IdField, BdatField("ShopItem1", "UINT16")>>,
                << <<IntV(1), IntV(s)>>, <<IntV(2), IntV(3)>> >>) >>)

FileNames == {"sys", "msg", "npc", "dlc", "btl", "chn", "qst", "itm"}

\* what each file may hold
Variants(f) ==
    CASE f = "sys" -> {SysFile, SysFileBare, SysFileMotion}
      [] f = "msg" -> {MsgFile(text) : text \in {"Ann", ""}}
      [] f = "npc" -> {NpcFile(a, n, b, c) :
                          a \in RawHashes, n \in 0..2, b \in RawHashes,
                          c \in RawHashes \cup {0}}
      [] f = "dlc" -> {DlcFile(a) : a \in RawHashes} \cup {DlcFileTwice}
      [] f = "btl" -> {BtlFile(type, p1, cap) :
                          type \in {7, 10, 255}, p1 \in {1, 3}, cap \in {0, 1}}
      [] f = "chn" -> {ChnFile(rows, x) : rows \in {0, 1}, x \in 0..3}
      [] f = "qst" -> {QstFile(t) :
                          t \in {hstring(h) : h \in RawHashes \cup {0}}
                                \cup {StrV("123"), IntV(1), IntV(9)}}
                    \cup {QstFileNpc}
      [] f = "itm" -> {ItmFile(k, s) : k \in {1, 2}, s \in {0, 1, 2, 9}} \cup {BadFile}

\* a set of files on which every reference resolves
DefaultDisk ==
    [f \in FileNames |->
        CASE f = "sys" -> SysFile
          [] f = "msg" -> MsgFile("Ann")
          [] f = "npc" -> NpcFile(10, 1, 11, 10)
          [] f = "dlc" -> DlcFile(11)
          [] f = "btl" -> BtlFile(10, 1, 1)
          [] f = "chn" -> ChnFile(1, 1)
          [] f = "qst" -> QstFile(hstring(11))
          [] f = "itm" -> ItmFile(2, 1)]

\* the default files, or the default files with one of them replaced
Disks == UNION {{[DefaultDisk EXCEPT ![f] = v] : v \in Variants(f)} : f \in FileNames}

\* the default files with a version 1 file in the place of "dlc", and the
\* rows of both "dlc" and "qst" numbered from some base ID
DisksMixed ==
    {[DefaultDisk EXCEPT !["dlc"] = OldFile(base_id, a), !["qst"] = QstFileAt(base_id)] :
        base_id \in {0, 1, 5}, a \in {1, 9}}

AllFiles == <<"sys", "msg", "npc", "btl", "chn", "qst", "itm">>

\* the command lines: every file; the same in reverse; without the file of
\* BTL_LvRev; one file given twice; a later file with a table of the same
\* name as an earlier one; too few files for the rules
ArgLists ==
    { AllFiles,
      <<"itm", "qst", "chn", "btl", "npc", "msg", "sys">>,
      Tail(AllFiles),
      AllFiles \o <<"npc">>,
      AllFiles \o <<"dlc">>,
      <<"sys", "npc", "msg">> }

----------------------------------------------------------------------------
(* main *)

Loaded(tabs, ord, g, n, cl, e) ==
    [tables |-> tabs, order |-> ord, global |-> g, built |-> n, claimants |-> cl, err |-> e]

\* who claimed which hashed ID: construction number n claims the IDs of its rows
claimed_by(cl, d, n) ==
    IF ~has_hashid(d.fields) THEN cl
    ELSE LET ids == {d.rows[i][2] : i \in 1..Len(d.rows)}
         IN [k \in (DOMAIN cl) \cup ids |->
                (IF k \in DOMAIN cl THEN cl[k] ELSE {}) \cup (IF k \in ids THEN {n} ELSE {})]

RECURSIVE construct(_, _, _)
\* Bdat(file): the tables of the file are constructed one after the other,
\* from the i-th on; the first constructor to raise ends the run
construct(st, descs, i) ==
    IF i > Len(descs) THEN st
    ELSE IF init_raises(descs[i].fields)
    THEN [st EXCEPT !.err = "IndexError"]
    ELSE construct(
            [st EXCEPT !.global = global_after(@, descs[i].name, descs[i].fields, descs[i].rows),
                       !.built = @ + 1,
                       !.claimants = claimed_by(@, descs[i], st.built + 1)],
            descs, i + 1)

\* a merge that keeps the table the collection already has under the name
merge_one_first_wins(tabs, ord, d) ==
    LET t == BdatTable(d.name, d.fields, d.rows)
    IN <<[n \in (DOMAIN tabs) \cup {d.name} |-> IF n \in DOMAIN tabs THEN tabs[n] ELSE t],
         IF d.name \in DOMAIN tabs THEN ord ELSE Append(ord, d.name)>>

\* tables[table.name] = table
merge_one(tabs, ord, d) ==
    LET t == BdatTable(d.name, d.fields, d.rows)
    IN <<[n \in (DOMAIN tabs) \cup {d.name} |-> IF n = d.name THEN t ELSE tabs[n]],
         IF d.name \in DOMAIN tabs THEN ord ELSE Append(ord, d.name)>>

RECURSIVE merge(_, _, _, _)
\* "for table in bdat.tables(): tables[table.name] = table", from the i-th on
merge(tabs, ord, descs, i) ==
    IF i > Len(descs) THEN <<tabs, ord>>
    ELSE LET m == merge_one(tabs, ord, descs[i])
         IN merge(m[1], m[2], descs, i + 1)

\* a loop that passes over a file Bdat() cannot parse
load_file_skips(tabs, ord, g, n, cl, content) ==
    IF ~content.ok THEN Loaded(tabs, ord, g, n, cl, "")
    ELSE LET made == construct(Loaded(tabs, ord, g, n, cl, ""), content.tables, 1)
         IN IF made.err # "" THEN made
            ELSE LET m == merge(tabs, ord, content.tables, 1)
                 IN [made EXCEPT !.tables = m[1], !.order = m[2]]

\* one iteration of "for file in args.files"
load_file(tabs, ord, g, n, cl, content) ==
    IF ~content.ok THEN Loaded(tabs, ord, g, n, cl, "ValueError")
    ELSE LET made == construct(Loaded(tabs, ord, g, n, cl, ""), content.tables, 1)
         IN IF made.err # "" THEN made
            ELSE LET m == merge(tabs, ord, content.tables, 1)
                 IN [made EXCEPT !.tables = m[1], !.order = m[2]]

\* a main that resolves whatever it has read
wants_xrefs_always(tabs) == TRUE

\* "if 'BTL_LvRev' in tables"
wants_xrefs(tabs) == "BTL_LvRev" \in DOMAIN tabs

\* a main that resolves as soon as BTL_LvRev is loaded
barrier_early(rest, tabs) == rest = <<>> \/ wants_xrefs(tabs)

\* whether main leaves "for file in args.files" after this file: the call of
\* resolve_xrefs stands after the loop, not in it
barrier(rest, tabs) == rest = <<>>

\* no method is called on its own while main runs
NoCall == [op |-> "", args |-> <<>>, result |-> NoneV, err |-> "", n |-> 0, old |-> <<>>]

Init ==
    /\ disk \in Disks
    /\ args \in ArgLists
    /\ files = args
    /\ tables = <<>>
    /\ order = <<>>
    /\ global_hashmap = <<>>
    /\ pc = "parse"
    /\ err = ""
    /\ job = 0
    /\ row = 0
    /\ runs = 0
    /\ built = 0
    /\ claimants = <<>>
    /\ orig = <<>>
    /\ first = <<>>
    /\ warned = 0
    /\ written = {}
    /\ call = NoCall

\* control moves to position p of resolve_xrefs, or out of it
Goto(p, tabs) ==
    /\ pc' = p.pc
    /\ err' = p.err
    /\ job' = p.job
    /\ row' = p.row
    /\ first' = IF p.pc = "print" /\ runs' = 1 THEN tabs ELSE first

\* bdat = Bdat(file) and the merge of its tables
ParseFile ==
    /\ pc = "parse"
    /\ files # <<>>
    /\ LET st == load_file(tables, order, global_hashmap, built, claimants, disk[Head(files)])
       IN /\ tables' = st.tables
          /\ order' = st.order
          /\ global_hashmap' = st.global
          /\ built' = st.built
          /\ claimants' = st.claimants
          /\ IF st.err # ""
             THEN /\ pc' = "failed"
                  /\ err' = st.err
                  /\ files' = files
             ELSE /\ pc' = IF barrier(Tail(files), st.tables) THEN "loaded" ELSE "parse"
                  /\ err' = ""
                  /\ files' = Tail(files)
    /\ UNCHANGED <<call, disk, args, job, row, runs, orig, first, warned, written>>

\* "if 'BTL_LvRev' in tables: resolve_xrefs(tables)", up to the first row
StartResolve ==
    /\ pc = "loaded"
    /\ wants_xrefs(tables)
    /\ runs' = runs + 1
    /\ orig' = tables
    /\ Goto(enter(tables, order, 1), tables)
    /\ UNCHANGED <<call, disk, args, files, tables, order, global_hashmap, built, claimants, warned, written>>

SkipResolve ==
    /\ pc = "loaded"
    /\ ~wants_xrefs(tables)
    /\ pc' = "print"
    /\ UNCHANGED <<call, disk, args, files, tables, order, global_hashmap, err, job, row, runs,
                   built, claimants, orig, first, warned, written>>

----------------------------------------------------------------------------
(* resolve_xrefs, one row of one column loop at a time *)

CurJob == Jobs(tables, order)[job]

\* The row has been handled with result res.  A ValueError raised inside the
\* try of the generic field rules is dropped together with the rest of the
\* column; any other exception leaves resolve_xrefs and main.
RowDone(res) ==
    /\ UNCHANGED <<call, disk, args, files, order, global_hashmap, runs, built, claimants, orig, written>>
    /\ tables' = res.tables
    /\ warned' = warned + res.warned
    /\ IF res.err # "" /\ ~(CurJob.kind = "field" /\ res.err = "ValueError")
       THEN Goto(Position("failed", res.err, job, row), res.tables)
       ELSE IF res.err = "" /\ row + 1 < num_rows(tables[CurJob.table])
       THEN Goto(Position("resolve", "", job, row + 1), res.tables)
       ELSE Goto(enter(res.tables, order, job + 1), res.tables)

FieldRow ==
    resolve_field_row(tables, CurJob.table, row,
                      field_index(tables[CurJob.table], CurJob.field), CurJob.target)

\* a row of a text cross-reference rule (text_xrefs)
TextRule ==
    /\ pc = "resolve"
    /\ CurJob.kind = "text"
    /\ RowDone(FieldRow)

\* a row of the value-dependent rule of BTL_Achievement
ValueRule ==
    /\ pc = "resolve"
    /\ CurJob.kind = "valdep"
    /\ RowDone(achievement_row(tables, CurJob.table, row))

\* a row of a per-table field rule (table_xrefs)
TableRule ==
    /\ pc = "resolve"
    /\ CurJob.kind = "table"
    /\ RowDone(FieldRow)

\* a row of a generic field rule (field_xrefs)
FieldRule ==
    /\ pc = "resolve"
    /\ CurJob.kind = "field"
    /\ RowDone(FieldRow)

\* a row of the global hashed-ID pass
HashPass ==
    /\ pc = "resolve"
    /\ CurJob.kind = "hash"
    /\ RowDone(hash_row(tables, global_hashmap, CurJob.table, row,
                        field_index(tables[CurJob.table], CurJob.field)))

\* the loop writing one HTML file per table
WriteTables ==
    /\ pc = "print"
    /\ pc' = "done"
    /\ written' = DOMAIN tables
    /\ UNCHANGED <<call, disk, args, files, tables, order, global_hashmap, err, job, row, runs,
                   built, claimants, orig, first, warned>>

Next ==
    \/ ParseFile
    \/ StartResolve
    \/ SkipResolve
    \/ TextRule
    \/ ValueRule
    \/ TableRule
    \/ FieldRule
    \/ HashPass
    \/ WriteTables

Spec == Init /\ [][Next]_vars

\* resolve_xrefs called once more on the collection it has just resolved
Rerun ==
    /\ pc = "print"
    /\ runs = 1
    /\ runs' = 2
    /\ Goto(enter(tables, order, 1), tables)
    /\ UNCHANGED <<call, disk, args, files, tables, order, global_hashmap, built, claimants,
                   orig, warned, written>>

NextTwice == Next \/ Rerun

SpecTwice == Init /\ [][NextTwice]_vars

\* main on files of both layouts
InitMixed ==
    /\ disk \in DisksMixed
    /\ args \in ArgLists
    /\ files = args
    /\ tables = <<>>
    /\ order = <<>>
    /\ global_hashmap = <<>>
    /\ pc = "parse"
    /\ err = ""
    /\ job = 0
    /\ row = 0
    /\ runs = 0
    /\ built = 0
    /\ claimants = <<>>
    /\ orig = <<>>
    /\ first = <<>>
    /\ warned = 0
    /\ written = {}
    /\ call = NoCall

SpecMixed == InitMixed /\ [][Next]_vars

----------------------------------------------------------------------------
(* The methods of BdatTable called on their own: one table is constructed   *)
(* and then id_to_row and addref are called on it with arguments of the    *)
(* kinds add_xref and resolve_field_xrefs pass.                            *)

\* number of calls made on one table
MaxCalls == 3

\* a method call and its outcome: the arguments, the value returned (None
\* when the call raised), the class of the exception raised or "", the
\* number of calls made so far and the object as it was before the call
Call(op, arguments, result, e, n, old) ==
    [op |-> op, args |-> arguments, result |-> result, err |-> e, n |-> n, old |-> old]

\* the tables called on: one without rows, one with numeric IDs from base
\* ID 5, one with hashed IDs, two rows of it with the same hashed ID
ApiTables ==
    { Tab("MNU_Empty", <<IdField, BdatField("Name", "STRING")>>, <<>>),
      Tab("MNU_Name", <<IdField, BdatField("Name", "STRING")>>,
          << <<IntV(5), StrV("a")>>, <<IntV(6), StrV("b")>>, <<IntV(7), StrV("")>> >>),
      Tab("MNU_Hash", <<IdField, BdatField("ID", "HSTRING")>>,
          << <<IntV(1), hstring(10)>>, <<IntV(2), hstring(11)>>, <<IntV(3), hstring(10)>> >>),
      Table1("EVT_Old", <<IdField, BdatArray("Param", "UINT8", 2), BdatField("Kind", "UINT8")>>, 1,
             << <<Array(<<IntV(6), IntV(1)>>), IntV(3)>> >>) }

\* the object the calls are made on
Self == tables[order[1]]

InitTable ==
    /\ \E d \in ApiTables :
          /\ tables = (d.name :> BdatTable(d.name, d.fields, d.rows))
          /\ order = <<d.name>>
          /\ global_hashmap = global_after(<<>>, d.name, d.fields, d.rows)
    /\ disk = <<>>
    /\ args = <<>>
    /\ files = <<>>
    /\ pc = "api"
    /\ err = ""
    /\ job = 0
    /\ row = 0
    /\ runs = 0
    /\ built = 1
    /\ claimants = <<>>
    /\ orig = <<>>
    /\ first = <<>>
    /\ warned = 0
    /\ written = {}
    /\ call = NoCall

\* the call has been made: it returned result or raised e, and left the table as t
Called(op, arguments, result, e, t) ==
    /\ call' = Call(op, arguments, result, e, call.n + 1, Self)
    /\ tables' = [tables EXCEPT ![order[1]] = t]
    /\ UNCHANGED <<disk, args, files, order, global_hashmap, pc, err, job, row, runs,
                   built, claimants, orig, first, warned, written>>

\* table.id_to_row(id)
CallIdToRow ==
    /\ pc = "api"
    /\ call.n < MaxCalls
    /\ \E id \in {IntV(k) : k \in 0..8} \cup {hstring(h) : h \in 10..12} :
          IF id_to_row_raises(Self, id)
          THEN Called("id_to_row", <<id>>, NoneV, "IndexError", Self)
          ELSE Called("id_to_row", <<id>>, IntV(id_to_row(Self, id)), "", Self)

\* table.addref(row, ref_name, ref_row, ref_value)
CallAddref ==
    /\ pc = "api"
    /\ call.n < MaxCalls
    /\ \E r \in 0..num_rows(Self), ref_name \in {"QST_TaskTalk", "MNU_ShopTable"},
          ref_value \in {IntV(1), StrV("Ann")} :
          LET arguments == <<r, ref_name, IntV(1), ref_value>>
          IN IF row_error(Self, r) # ""
             THEN Called("addref", arguments, NoneV, row_error(Self, r), Self)
             ELSE Called("addref", arguments, NoneV, "",
                         addref(Self, r, ref_name, IntV(1), ref_value))

\* table.get(row, field)
CallGet ==
    /\ pc = "api"
    /\ call.n < MaxCalls
    /\ \E r \in 0..num_rows(Self), f \in 0..(num_fields(Self) - 1) :
          IF row_error(Self, r) # ""
          THEN Called("get", <<r, f>>, NoneV, row_error(Self, r), Self)
          ELSE Called("get", <<r, f>>, get(Self, r, f), "", Self)

\* table.set(row, field, value) and table.set(row, field, value, link_table,
\* link_row) as add_xref calls it
CallSet ==
    /\ pc = "api"
    /\ call.n < MaxCalls
    /\ \E r \in 0..num_rows(Self), f \in 1..(num_fields(Self) - 1),
          link_table \in {"", "FLD_NpcList"} :
          LET arguments == <<r, f, StrV("Ann"), link_table, IntV(1)>>
          IN IF row_error(Self, r) # ""
             THEN Called("set", arguments, NoneV, row_error(Self, r), Self)
             ELSE Called("set", arguments, NoneV, "",
                         set(Self, r, f, StrV("Ann"), link_table, IntV(1)))

NextTable == CallIdToRow \/ CallAddref \/ CallGet \/ CallSet

SpecTable == InitTable /\ [][NextTable]_vars

----------------------------------------------------------------------------
(* Bdat._parse called on its own, on the bytes of a file.  Of the table    *)
(* parsers only the checks of the table header are modelled; a table whose *)
(* header passes them is represented by its layout and its offset.         *)

\* struct.unpack('<I', data[offset:offset+4])[0]; bytes are 0..255 and data
\* is indexed from 1
u32(data, offset) ==
    data[offset + 1] + 256 * data[offset + 2] + 65536 * data[offset + 3]
       + 16777216 * data[offset + 4]

\* b'BDAT'
Magic == <<66, 68, 65, 84>>

ParseError == [err |-> "ValueError", version |-> 0, tables |-> <<>>]

\* _parseTable1 up to the check of the table header
parseTable1(data, offset) ==
    IF Len(data) < offset + 36 THEN ParseError
    ELSE IF SubSeq(data, offset + 1, offset + 4) # Magic THEN ParseError
    ELSE [err |-> "", version |-> 1, tables |-> << <<1, offset>> >>]

\* _parseTable2 up to the check of the table header
parseTable2(data, offset) ==
    IF Len(data) < offset + 48 THEN ParseError
    ELSE IF SubSeq(data, offset + 1, offset + 4) # Magic \/ u32(data, offset + 4) # 12292
    THEN ParseError                                         \* 0x3004
    ELSE [err |-> "", version |-> 2, tables |-> << <<2, offset>> >>]

parseTable(version, data, offset) ==
    IF version = 2 THEN parseTable2(data, offset) ELSE parseTable1(data, offset)

RECURSIVE parse_list(_, _, _, _, _)
\* list(self._parseTable(data, u32(data, offset+8+4*i)) for i in range(num_tables)),
\* from i on: the first table parser to raise ends the call
parse_list(version, data, offset, num_tables, i) ==
    IF i = num_tables THEN [err |-> "", version |-> version, tables |-> <<>>]
    ELSE LET t == parseTable(version, data, u32(data, offset + 8 + 4 * i))
         IN IF t.err # "" THEN ParseError
            ELSE LET rest == parse_list(version, data, offset, num_tables, i + 1)
                 IN IF rest.err # "" THEN ParseError
                    ELSE [rest EXCEPT !.tables = t.tables \o @]

\* _parse from "num_tables = u32(data, offset)" on
parse_tables(version, data, offset) ==
    LET num_tables == u32(data, offset)
    IN IF num_tables <= 0 THEN ParseError
       ELSE IF Len(data) < offset + 8 + 4 * num_tables THEN ParseError
       ELSE parse_list(version, data, offset, num_tables, 0)

\* a _parse that takes the magic alone for the mark of version 2
parse_magic_only(data) ==
    IF Len(data) < 4 THEN ParseError
    ELSE IF SubSeq(data, 1, 4) = Magic
    THEN IF Len(data) < 12 THEN ParseError ELSE parse_tables(2, data, 8)
    ELSE parse_tables(1, data, 0)

\* Bdat._parse(data): the error raised, or self._version and the list returned
parse(data) ==
    IF Len(data) < 4 THEN ParseError
    ELSE IF SubSeq(data, 1, 4) = Magic
    THEN IF Len(data) < 12 THEN ParseError
         ELSE IF u32(data, 4) # 16781316 THEN ParseError    \* 0x01001004
         ELSE parse_tables(2, data, 8)
    ELSE parse_tables(1, data, 0)

\* number of tables in the files parsed
MaxTables == 2

\* a 32-bit word, low byte first
le32(n) == <<n % 256, (n \div 256) % 256, (n \div 65536) % 256, n \div 16777216>>
Zeros(n) == [i \in 1..n |-> 0]

RECURSIVE Words(_)
Words(ns) == IF ns = <<>> THEN <<>> ELSE le32(Head(ns)) \o Words(Tail(ns))

\* the bytes of a table of the layout: the header, the first byte changed
\* when the header is to be invalid
TableBytes(version, valid) ==
    (IF valid THEN Magic ELSE <<0>> \o Tail(Magic))
       \o (IF version = 2 THEN le32(12292) \o Zeros(40) ELSE Zeros(32))

RECURSIVE Blobs(_, _)
Blobs(version, valid) ==
    IF valid = <<>> THEN <<>>
    ELSE TableBytes(version, Head(valid)) \o Blobs(version, Tail(valid))

\* a file of the layout: word 4 of a version 2 file, the table count, the
\* table offsets as places in the sequence of tables that follows (place 0
\* is the start of the file), and which tables have a valid header
FileBytes(version, word, count, places, valid) ==
    LET head == (IF version = 2 THEN 16 ELSE 8) + 4 * Len(places)
        size == IF version = 2 THEN 48 ELSE 36
        at(k) == IF k = 0 THEN 0 ELSE head + size * (k - 1)
    IN (IF version = 2 THEN Magic \o le32(word) ELSE <<>>)
          \o le32(count) \o le32(0)
          \o Words([i \in 1..Len(places) |-> at(places[i])])
          \o Blobs(version, valid)

\* the table offsets: in the order of the tables, in another order, one
\* offset twice, an offset that is not that of a table
Places ==
    UNION {{[i \in 1..n |-> i], [i \in 1..n |-> n + 1 - i], [i \in 1..n |-> 1],
            [i \in 1..n |-> IF i = n THEN 0 ELSE i]} : n \in 1..MaxTables}

\* the files: whole ones and every file cut short
ParseInputs ==
    LET whole == {FileBytes(version, word, count, places, valid) :
                      version \in {1, 2}, word \in {16781316},
                      count \in {0, 1}, places \in {<<>>}, valid \in {<<>>}}
                 \cup UNION {UNION {{FileBytes(version, word, Len(places), places,
                                               [i \in 1..Len(places) |-> i # bad]) :
                                         version \in {1, 2}, word \in {16781316, 12292}} :
                                     bad \in 0..Len(places)} :
                             places \in Places}
    IN UNION {{SubSeq(d, 1, n) : n \in 0..Len(d)} : d \in whole}

InitParse ==
    /\ call \in {Call("_parse", <<data>>, NoneV, "", 0, <<>>) : data \in ParseInputs}
    /\ disk = <<>>
    /\ args = <<>>
    /\ files = <<>>
    /\ tables = <<>>
    /\ order = <<>>
    /\ global_hashmap = <<>>
    /\ pc = "bytes"
    /\ err = ""
    /\ job = 0
    /\ row = 0
    /\ runs = 0
    /\ built = 0
    /\ claimants = <<>>
    /\ orig = <<>>
    /\ first = <<>>
    /\ warned = 0
    /\ written = {}

\* self._tables = self._parse(f.read())
CallParse ==
    /\ pc = "bytes"
    /\ call.n = 0
    /\ LET made == parse(call.args[1])
       IN call' = [call EXCEPT !.n = 1, !.err = made.err,
                               !.result = IF made.err # "" THEN NoneV
                                          ELSE <<"list", made.version, made.tables>>]
    /\ UNCHANGED <<disk, args, files, tables, order, global_hashmap, pc, err, job, row,
                   runs, built, claimants, orig, first, warned, written>>

NextParse == CallParse

SpecParse == InitParse /\ [][NextParse]_vars

----------------------------------------------------------------------------
(* Bdat._parseTable1 from the loop over the field descriptors on, called   *)
(* on its own: the descriptors are given as decoded, the row records as    *)
(* bytes.                                                                  *)

\* number of row records in the tables parsed
MaxRows == 2

\* the variables of main while a method is called on its own
Idle(p) ==
    /\ disk = <<>>
    /\ args = <<>>
    /\ files = <<>>
    /\ tables = <<>>
    /\ order = <<>>
    /\ global_hashmap = <<>>
    /\ pc = p
    /\ err = ""
    /\ job = 0
    /\ row = 0
    /\ runs = 0
    /\ built = 0
    /\ claimants = <<>>
    /\ orig = <<>>
    /\ first = <<>>
    /\ warned = 0
    /\ written = {}

BoolV(b) == <<"bool", b>>

RECURSIVE BitAnd(_, _)
\* a & b for a, b >= 0
BitAnd(a, b) ==
    IF a = 0 \/ b = 0 THEN 0
    ELSE (a % 2) * (b % 2) + 2 * BitAnd(a \div 2, b \div 2)

\* a scalar or array field descriptor: the type byte, the value type and the
\* value offset, and the element count of an array (0 when a scalar)
ScalarDesc(name, value_type, value_ofs) ==
    [name |-> name, field_type |-> "SCALAR", value_type |-> value_type,
     value_ofs |-> value_ofs, array_size |-> 0, flag_mask |-> 0, parent |-> ""]
\* a flag field descriptor: the mask and the descriptor of the parent field
FlagDesc(name, flag_mask, parent) ==
    [name |-> name, field_type |-> "FLAG", value_type |-> "BOOL",
     value_ofs |-> 0, array_size |-> 0, flag_mask |-> flag_mask, parent |-> parent]

\* what the loop over the descriptors keeps of a field; value_ofs, flag_ofs
\* and flag_size are Unbound where Python has no value or None
Unbound == -1
FieldInfo(field, value_ofs, flag_ofs, flag_size, flag_mask) ==
    [field |-> field, value_ofs |-> value_ofs, flag_ofs |-> flag_ofs,
     flag_size |-> flag_size, flag_mask |-> flag_mask]

\* the descriptor of the name
DescNamed(descs, name) == descs[CHOOSE k \in 1..Len(descs) : descs[k].name = name]

\* the width in bytes of an unsigned value type
SizeOf(value_type) ==
    CASE value_type = "UINT8" -> 1 [] value_type = "UINT16" -> 2 [] value_type = "UINT32" -> 4

\* the value_ofs appended for a flag field: the flag branch assigns flag_ofs
\* and leaves the local value_ofs as the last scalar or array field set it
flag_value_ofs(descs, d, value_ofs) == value_ofs

RECURSIVE field_infos(_, _, _)
\* the loop "for i in range(field_count)" from descriptor i on, value_ofs
\* being the local variable of that name as the iterations before left it
field_infos(descs, i, value_ofs) ==
    IF i > Len(descs) THEN [err |-> "", fields |-> <<>>]
    ELSE LET d == descs[i]
             parent == DescNamed(descs, d.parent)
             info ==
                 IF d.field_type = "FLAG"
                 THEN FieldInfo(BdatField(d.name, "BOOL"), flag_value_ofs(descs, d, value_ofs),
                                parent.value_ofs, SizeOf(parent.value_type), d.flag_mask)
                 ELSE FieldInfo(IF d.array_size > 0
                                THEN BdatArray(d.name, d.value_type, d.array_size)
                                ELSE BdatField(d.name, d.value_type),
                                d.value_ofs, Unbound, Unbound, Unbound)
         IN IF d.field_type = "FLAG" /\ parent.field_type # "SCALAR"
            THEN [err |-> "ValueError", fields |-> <<>>]
            ELSE IF d.field_type = "FLAG"
                    /\ parent.value_type \notin {"UINT8", "UINT16", "UINT32"}
            THEN [err |-> "ValueError", fields |-> <<>>]
            ELSE IF info.value_ofs = Unbound
            THEN [err |-> "UnboundLocalError", fields |-> <<>>]
            ELSE LET rest == field_infos(descs, i + 1, info.value_ofs)
                 IN IF rest.err # "" THEN rest
                    ELSE [rest EXCEPT !.fields = <<info>> \o @]

RECURSIVE unsigned(_, _, _)
\* struct.unpack of size bytes at offset ofs as one unsigned number, low byte first
unsigned(data, ofs, size) ==
    IF size = 0 THEN 0 ELSE data[ofs + 1] + 256 * unsigned(data, ofs + 1, size - 1)

\* the cell of the field in the row record at offset record of the row data:
\* read at value_ofs in the width of the parent for a flag, once per element
\* for an array
decode(info, data, record) ==
    LET size == IF info.flag_ofs # Unbound THEN info.flag_size ELSE SizeOf(info.field.value_type)
        count == IF array_size(info.field) > 0 THEN array_size(info.field) ELSE 1
        at == info.value_ofs + record
        values == [k \in 1..count |-> unsigned(data, at + size * (k - 1), size)]
    IN IF Len(data) < at + size * count THEN <<"error">>
       ELSE IF info.flag_ofs # Unbound THEN BoolV(BitAnd(values[1], info.flag_mask) # 0)
       ELSE IF array_size(info.field) > 0 THEN Array([k \in 1..count |-> IntV(values[k])])
       ELSE IntV(values[1])

\* _parseTable1 from the descriptor loop on: the exception raised, or the
\* fields and the rows handed to BdatTable()
parseRows(descs, base_id, row_size, row_count, data) ==
    LET made == field_infos(descs, 1, Unbound)
        rows == [i \in 1..row_count |->
                    <<row_id(base_id, i - 1)>>
                       \o [f \in 1..Len(descs) |->
                              decode(made.fields[f], data, row_size * (i - 1))]]
    IN IF made.err # "" THEN [err |-> made.err, fields |-> <<>>, rows |-> <<>>]
       ELSE IF \E i \in 1..row_count : \E f \in 2..(Len(descs) + 1) : rows[i][f] = <<"error">>
       THEN [err |-> "error", fields |-> <<>>, rows |-> <<>>]
       ELSE [err |-> "",
             fields |-> <<IdField>> \o [f \in 1..Len(descs) |-> made.fields[f].field],
             rows |-> rows]

\* the descriptors the tables are made of: a parent field P at offset 0,
\* another field A at offset 1, two flags of P
DescP == ScalarDesc("P", "UINT8", 0)
DescA == ScalarDesc("A", "UINT8", 1)
DescF == FlagDesc("F", 4, "P")
DescG == FlagDesc("G", 2, "P")

\* the descriptor lists: P, at least one of its flags, in every order, with
\* or without A
DescLists ==
    {ds \in UNION {[1..n -> {DescP, DescA, DescF, DescG}] : n \in 2..3} :
        /\ \A i, k \in 1..Len(ds) : i # k => ds[i] # ds[k]
        /\ \E i \in 1..Len(ds) : ds[i] = DescP
        /\ \E i \in 1..Len(ds) : ds[i].field_type = "FLAG"}

\* the row records: two bytes each, the values of P and A
RowData ==
    LET records == {<<p, a>> : p \in {1, 6}, a \in {1, 4}}
        RECURSIVE all(_)
        all(n) == IF n = 0 THEN {<<>>} ELSE {d \o r : d \in all(n - 1), r \in records}
    IN UNION {all(n) : n \in 1..MaxRows}

InitRows ==
    /\ call \in {Call("_parseTable1", <<descs, data>>, NoneV, "", 0, <<>>) :
                    descs \in DescLists, data \in RowData}
    /\ Idle("table1")

\* _parseTable1 on a table of the descriptors and row records, base ID 1
CallParseRows ==
    /\ pc = "table1"
    /\ call.n = 0
    /\ LET made == parseRows(call.args[1], 1, 2, Len(call.args[2]) \div 2, call.args[2])
       IN call' = [call EXCEPT !.n = 1, !.err = made.err,
                               !.result = IF made.err # "" THEN NoneV
                                          ELSE <<"table", made.fields, made.rows>>]
    /\ UNCHANGED <<disk, args, files, tables, order, global_hashmap, pc, err, job, row,
                   runs, built, claimants, orig, first, warned, written>>

NextRows == CallParseRows

SpecRows == InitRows /\ [][NextRows]_vars

----------------------------------------------------------------------------
(* Bdat._decrypt called on its own, once or twice, on a buffer of bytes    *)
(* and a region that lies inside it; or once on a buffer that has been     *)
(* encrypted with the same key.                                            *)

\* number of bytes in the buffers
MaxBytes == 4

RECURSIVE BitXor(_, _)
\* a ^ b for a, b >= 0
BitXor(a, b) ==
    IF a = 0 THEN b
    ELSE IF b = 0 THEN a
    ELSE ((a + b) % 2) + 2 * BitXor(a \div 2, b \div 2)

\* a = (~key >> 8) & 255 and b = ~key & 255: ~key is -key - 1, >> 8 the
\* floor of the division by 256, & 255 the remainder modulo 256
seed_a(key) == ((-key - 1) \div 256) % 256
\* a second accumulator seeded like the first
seed_b_high(key) == ((-key - 1) \div 256) % 256
seed_b(key) == (-key - 1) % 256

\* an accumulator that is not fed
accumulate_nothing(a, x, out) == a

\* an accumulator fed with the byte written
accumulate_output(a, x, out) == (a + out) % 256

\* a = (a + x) & 255, x being the byte read before "data[...] ^= a"
accumulate(a, x, out) == (a + x) % 256

RECURSIVE decrypt_from(_, _, _, _, _, _)
\* the loop "for i in range(0, size, 2)" from i on
decrypt_from(data, offset, size, i, a, b) ==
    IF i >= size THEN data
    ELSE LET x == data[offset + i + 1]
             y == data[offset + i + 2]
             out == [data EXCEPT ![offset + i + 1] = BitXor(x, a),
                                 ![offset + i + 2] = BitXor(y, b)]
         IN decrypt_from(out, offset, size, i + 2,
                         accumulate(a, x, out[offset + i + 1]),
                         accumulate(b, y, out[offset + i + 2]))

\* _decrypt(data, offset, size, key): the exception raised and the buffer as
\* the call leaves it
decrypt(data, offset, size, key) ==
    IF size % 2 # 0 THEN [err |-> "ValueError", data |-> data]
    ELSE [err |-> "", data |-> decrypt_from(data, offset, size, 0, seed_a(key), seed_b(key))]

CipherBytes == {0, 90, 255}
CipherKeys == {0, 4660, 65280, 65535}
CipherData == [1..MaxBytes -> CipherBytes]
Regions == {<<offset, size>> \in (0..MaxBytes) \X (0..MaxBytes) : offset + size <= MaxBytes}

\* the encryption that matches _decrypt, of which the repository has no
\* code: each pair is XORed with the accumulators, and the bytes written
\* are added to the accumulators
RECURSIVE encrypt_from(_, _, _, _, _, _)
encrypt_from(data, offset, size, i, a, b) ==
    IF i >= size THEN data
    ELSE LET cx == BitXor(data[offset + i + 1], a)
             cy == BitXor(data[offset + i + 2], b)
         IN encrypt_from([data EXCEPT ![offset + i + 1] = cx, ![offset + i + 2] = cy],
                         offset, size, i + 2, (a + cx) % 256, (b + cy) % 256)

InitCipher ==
    /\ call \in {Call("_decrypt", <<data, r[1], r[2], key>>, <<"bytes", data>>, "", 0, <<>>) :
                    data \in CipherData, r \in Regions, key \in CipherKeys}
    /\ Idle("cipher")

\* the region of the buffer is encrypted before _decrypt is called: the
\* buffer of the call is the ciphertext, call.old the plaintext
Encrypt ==
    /\ pc = "cipher"
    /\ call.n = 0
    /\ call.old = <<>>
    /\ call.args[3] % 2 = 0
    /\ call.args[3] > 0
    /\ LET cipher == encrypt_from(call.args[1], call.args[2], call.args[3], 0,
                                   255 - (call.args[4] \div 256), 255 - (call.args[4] % 256))
       IN call' = [call EXCEPT !.old = call.args[1], !.args[1] = cipher,
                               !.result = <<"bytes", cipher>>]
    /\ UNCHANGED <<disk, args, files, tables, order, global_hashmap, pc, err, job, row,
                   runs, built, claimants, orig, first, warned, written>>

\* self._decrypt(tdata, offset, size, key) on the buffer as it is now
CallDecrypt ==
    /\ pc = "cipher"
    /\ call.n < 2
    /\ call.err = ""
    /\ LET made == decrypt(call.result[2], call.args[2], call.args[3], call.args[4])
       IN call' = [call EXCEPT !.n = @ + 1, !.err = made.err,
                               !.result = <<"bytes", made.data>>]
    /\ UNCHANGED <<disk, args, files, tables, order, global_hashmap, pc, err, job, row,
                   runs, built, claimants, orig, first, warned, written>>

NextCipher == Encrypt \/ CallDecrypt

SpecCipher == InitCipher /\ [][NextCipher]_vars

----------------------------------------------------------------------------
(* The name _parseTable2 gives a table, computed on its own from the       *)
(* 32-bit name value of the string blob and the path of the file.          *)

RECURSIVE basename(_)
\* os.path.basename(path): what follows the last "/"
basename(path) ==
    IF \E i \in 1..Len(path) : SubSeq(path, i, i) = "/"
    THEN basename(SubSeq(path, 2, Len(path)))
    ELSE path

RECURSIVE without_bdat(_)
\* s.replace('.bdat', '')
without_bdat(s) ==
    IF Len(s) < 5 THEN s
    ELSE IF SubSeq(s, 1, 5) = ".bdat" THEN without_bdat(SubSeq(s, 6, Len(s)))
    ELSE SubSeq(s, 1, 1) \o without_bdat(SubSeq(s, 2, Len(s)))

\* a parser that names a table of unknown hash like a HashedString cell
table_name_bracketed(value, path) ==
    IF value # 0 THEN unhash(value, "<" \o HexN(value, 8) \o ">")
    ELSE without_bdat(basename(path))

\* table_name as _parseTable2 computes it, self.name being basename(path)
table_name(value, path) ==
    IF value # 0 THEN unhash(value, HexN(value, 8))
    ELSE without_bdat(basename(path))

\* the paths of the files and what is left of each without its directories
\* and its extension
Stems ==
    [p \in {"sys.bdat", "bdat/msg.bdat", "a.b/dlc.bdat", "v1.0.bdat", "sys", "old.bin",
            "x.bdat.bdat", "a.bdatb.bdat", ".bdat.bdat/fld.bdat"} |->
        CASE p = "sys.bdat" -> "sys"
          [] p = "bdat/msg.bdat" -> "msg"
          [] p = "a.b/dlc.bdat" -> "dlc"
          [] p = "v1.0.bdat" -> "v1.0"
          [] p = "sys" -> "sys"
          [] p = "old.bin" -> "old"
          [] p = "x.bdat.bdat" -> "x.bdat"
          [] p = "a.bdatb.bdat" -> "a.bdatb"
          [] p = ".bdat.bdat/fld.bdat" -> "fld"]

\* the name values: 0, hashes the dictionary has a string for, one it has
\* None for, and hashes it does not have
NameValues == {0, 576023058, 496655147, 255, 4660, 16781316, 2147483647} \cup RawHashes

InitName ==
    /\ call \in {Call("table_name", <<value, path>>, NoneV, "", 0, <<>>) :
                    value \in NameValues, path \in DOMAIN Stems}
    /\ Idle("name")

CallTableName ==
    /\ pc = "name"
    /\ call.n = 0
    /\ call' = [call EXCEPT !.n = 1, !.result = StrV(table_name(call.args[1], call.args[2]))]
    /\ UNCHANGED <<disk, args, files, tables, order, global_hashmap, pc, err, job, row,
                   runs, built, claimants, orig, first, warned, written>>

NextName == CallTableName

SpecName == InitName /\ [][NextName]_vars

----------------------------------------------------------------------------
(* Properties *)

\* the cells of a collection, as <<table name, row index, field index>>
AllCells(tabs) ==
    UNION {{<<n, r, f>> : r \in 0..(num_rows(tabs[n]) - 1),
                          f \in 0..(num_fields(tabs[n]) - 1)} : n \in DOMAIN tabs}

\* what a cell holds: a value, or a link
cell(tabs, c) == tabs[c[1]].rows[c[2] + 1][c[3] + 1]

\* the rows of t whose ID is id: the row ID for an int, the hashed ID for a str
rows_with_id(t, id) ==
    {k \in 0..(num_rows(t) - 1) :
        IF IsInt(id) THEN t.rows[k + 1][1] = id
        ELSE has_hashid(t.fields) /\ t.rows[k + 1][2] = id}

\* the candidate tables of a rule that hold a row with this ID
matching(tabs, target, id) ==
    {i \in 1..Len(target.tables) :
        /\ target.tables[i] \in DOMAIN tabs
        /\ rows_with_id(tabs[target.tables[i]], id) # {}}

\* resolve_field_xrefs is about to handle row "row" of the current column
FieldStep == pc = "resolve" /\ CurJob.kind \in {"text", "table", "field"}

\* the cell that row step is about, and the value get() reads from it
cur_cell == <<CurJob.table, row, field_index(tables[CurJob.table], CurJob.field)>>
cur_value == get(tables[CurJob.table], row, cur_cell[3])

\* control goes on to the next row of the column, when there is one
NextRow ==
    row + 1 < num_rows(tables[CurJob.table]) =>
        (pc' = "resolve" /\ job' = job /\ row' = row + 1)

\* every table of every file of the command line is in the collection
AllMerged ==
    \A i \in 1..Len(args) : \A k \in 1..Len(disk[args[i]].tables) :
        disk[args[i]].tables[k].name \in DOMAIN tables

\* C1: a hashed ID claimed as a row key by two or more table constructions
\* is invalidated in the global ID index: global_id_lookup finds no table and
\* no row for it, in the state after the second claim and in every later one.
C1_CollisionInvalidated ==
    \A id \in DOMAIN claimants :
        Cardinality(claimants[id]) >= 2 => global_id_lookup(global_hashmap, id) = NoEntry

\* three constructions have claimed one hashed ID, and it is not found
C1_Witness ==
    \E id \in DOMAIN claimants :
        /\ Cardinality(claimants[id]) >= 3
        /\ global_id_lookup(global_hashmap, id) = NoEntry

\* C2: resolve_xrefs starts only when every input file has been read and all
\* its tables are in the collection; once it has started no file is read, no
\* table is constructed and no table enters the collection.
C2_ResolveAfterAllFiles ==
    [][/\ runs' > 0 => (files' = <<>> /\ AllMerged')
       /\ runs > 0 => (files' = files /\ built' = built /\ order' = order
                       /\ DOMAIN tables' = DOMAIN tables)]_vars

\* resolve_xrefs is running on a collection in which a later table has
\* replaced an earlier one
C2_Witness ==
    /\ pc = "resolve"
    /\ runs = 1
    /\ files = <<>>
    /\ built > Cardinality(DOMAIN tables)

\* C3: during a run of resolve_xrefs a cell that holds a link is not
\* rewritten by any later rule application.
C3_LinkedOnce ==
    [][pc = "resolve" =>
        \A c \in AllCells(tables) :
            IsTuple(cell(tables, c)) => cell(tables', c) = cell(tables, c)]_vars

\* C4: a second run of resolve_xrefs over the collection completes, leaves
\* every cell as the first run left it, and nests no link in a link.
C4_SecondRunChangesNothing ==
    runs = 2 =>
        /\ pc # "failed"
        /\ pc \in {"print", "done"} =>
              \A c \in AllCells(first) :
                  /\ cell(tables, c) = cell(first, c)
                  /\ IsTuple(cell(tables, c)) => ~IsTuple(cell(tables, c)[2])

\* C5: while and after resolve_xrefs runs, every cell holding a link
\* (display, T, r) in the row with ID i of table S has a back-reference on the
\* row of T whose ID is r, naming table S and row ID i.
C5_LinkHasBackref ==
    pc \in {"resolve", "print", "done"} =>
        \A c \in AllCells(tables) :
            IsTuple(cell(tables, c)) =>
                LET T == cell(tables, c)[3]
                    r == cell(tables, c)[4]
                IN /\ T \in DOMAIN tables
                   /\ \E k \in rows_with_id(tables[T], r) :
                         \E e \in tables[T].refs[k + 1] :
                             /\ e[1] = c[1]
                             /\ e[2] = tables[c[1]].rows[c[2] + 1][1]

\* C6, as the code has it: a cell whose decoded value is an integer row ID
\* keeps that value when it is rewritten into a link, as the link's third
\* element (the ID of the target row), whatever the display value is.
C6_DecodedIdIsTargetRow ==
    runs = 1 =>
        \A c \in AllCells(tables) :
            (IsTuple(cell(tables, c)) /\ IsInt(cell(orig, c))) =>
                cell(tables, c)[4] = cell(orig, c)

\* an integer cell has become a link that displays something else than the
\* decoded value and points at the row with that ID
C6_Witness ==
    /\ pc = "done"
    /\ runs = 1
    /\ \E c \in AllCells(tables) :
          /\ IsTuple(cell(tables, c))
          /\ IsInt(cell(orig, c))
          /\ cell(tables, c)[2] # cell(orig, c)
          /\ cell(tables, c)[4] = cell(orig, c)

\* C6, as stated: the display value of a link is the value decoded for the cell
C6_DisplayIsDecoded ==
    runs = 1 =>
        \A c \in AllCells(tables) :
            IsTuple(cell(tables, c)) => cell(tables, c)[2] = cell(orig, c)

\* C7: a row whose cell reads 0 or '' leaves resolve_field_xrefs with the
\* plain empty string in that cell; nothing is looked up (no error, even with
\* the rule's target table not loaded, and no warning), no other cell and no
\* back-reference set changes.
C7_EmptyReference ==
    [][(FieldStep /\ cur_value \in {IntV(0), StrV("")}) =>
        /\ pc' # "failed"
        /\ warned' = warned
        /\ \A c \in AllCells(tables) :
              cell(tables', c) = IF c = cur_cell THEN StrV("") ELSE cell(tables, c)
        /\ \A n \in DOMAIN tables : tables'[n].refs = tables[n].refs]_vars

\* the run is over, a cell decoded as 0 is the empty string, and the table
\* its rule points at was never loaded
C7_Witness ==
    /\ pc = "done"
    /\ runs = 1
    /\ "EDFB4E9F" \notin DOMAIN tables
    /\ orig["FLD_NpcResource"].rows[1][4] = IntV(0)
    /\ tables["FLD_NpcResource"].rows[1][4] = StrV("")

\* C8: a row whose non-empty cell value is the ID of no row of any candidate
\* table does not end the run: no cell and no back-reference set changes, and
\* the next row of the column is handled.
C8_UnmatchedIsSkipped ==
    [][(/\ FieldStep
        /\ cur_value \notin {IntV(0), StrV("")}
        /\ \A i \in 1..Len(CurJob.target.tables) : CurJob.target.tables[i] \in DOMAIN tables
        /\ matching(tables, CurJob.target, cur_value) = {}) =>
        /\ pc' # "failed"
        /\ tables' = tables
        /\ NextRow]_vars

\* C9: in the value-dependent rule of BTL_Achievement a Param1 that is the ID
\* of no row of the table AchieveType selects does not end the run: no cell
\* and no back-reference set changes, and the next row is handled.
C9_ValueRuleMismatchIsSkipped ==
    [][(/\ pc = "resolve"
        /\ CurJob.kind = "valdep"
        /\ LET table == tables[CurJob.table]
               type == get(table, row, field_index(table, "AchieveType"))
               param1 == get(table, row, field_index(table, "Param1"))
           IN /\ IsInt(type)
              /\ achievement_target(type) \in DOMAIN tables
              /\ num_rows(tables[achievement_target(type)]) > 0
              /\ rows_with_id(tables[achievement_target(type)], param1) = {}) =>
        /\ pc' # "failed"
        /\ tables' = tables
        /\ NextRow]_vars

\* C10: a row whose cell value is the ID of a row in more than one candidate
\* table of its rule ends the run with an exception, under a text rule, a
\* per-table rule and a generic field rule alike, and no cell is rewritten.
C10_AmbiguityIsFatal ==
    [][(/\ FieldStep
        /\ cur_value \notin {IntV(0), StrV("")}
        /\ Cardinality(matching(tables, CurJob.target, cur_value)) > 1) =>
        /\ pc' = "failed"
        /\ err' # ""
        /\ tables' = tables]_vars

\* a generic field rule has met an ID two of its candidates hold, and the run
\* has ended there
C10_Witness ==
    /\ pc = "failed"
    /\ err = "NameError"
    /\ CurJob.kind = "field"
    /\ Cardinality(matching(tables, CurJob.target, cur_value)) > 1

\* what the default display rule shows for row k of table t: the value read
\* from the row-name field when the table has a row-name rule and the value
\* is not '', else the row ID
default_display(t, k) ==
    IF /\ t.name \in DOMAIN row_name_fields
       /\ has_field(t, row_name_fields[t.name])
       /\ get(t, k, field_index(t, row_name_fields[t.name])) # StrV("")
    THEN get(t, k, field_index(t, row_name_fields[t.name]))
    ELSE t.rows[k + 1][1]

\* a row step of a rule without a display field: a per-table or generic rule
\* whose target names tables only, or the global hashed-ID pass
DefaultRuleStep ==
    /\ pc = "resolve"
    /\ \/ CurJob.kind = "hash"
       \/ CurJob.kind \in {"table", "field"} /\ CurJob.target.field = ""

stated_rank(kind) ==
    CASE kind = "text" -> 0 [] kind = "field" -> 1 [] kind = "table" -> 2
      [] kind = "hash" -> 3
applied_rank(kind) ==
    CASE kind = "text" -> 0 [] kind = "valdep" -> 1 [] kind = "table" -> 2
      [] kind = "field" -> 3 [] kind = "hash" -> 4

\* the column loop control is in after the step
NextJob == Jobs(tables', order')[job']

\* C12, as stated: on every table the text rules come first, then the generic
\* field rules, then the table's own field rules, then the hashed-ID pass.
C12_StatedOrder ==
    [][(/\ pc = "resolve" /\ pc' = "resolve"
        /\ CurJob.table = NextJob.table
        /\ CurJob.kind # "valdep" /\ NextJob.kind # "valdep") =>
        stated_rank(CurJob.kind) <= stated_rank(NextJob.kind)]_vars

\* C12, as the code has it: the text rules of all tables run before any other
\* rule; then, table by table, the value-dependent rule, the table's own field
\* rules, the generic field rules and the hashed-ID pass, in that order; and
\* while rules run every file has been read and the global ID index does not
\* change.
C12_AppliedOrder ==
    [][(pc = "resolve" /\ pc' = "resolve") =>
        /\ NextJob.kind = "text" => CurJob.kind = "text"
        /\ CurJob.table = NextJob.table =>
              applied_rank(CurJob.kind) <= applied_rank(NextJob.kind)
        /\ files = <<>>
        /\ AllMerged
        /\ global_hashmap' = global_hashmap]_vars

\* the hashed-ID pass is running on a table that has a rule of its own and a
\* generic rule, both applied: the cells of both columns are links
C12_Witness ==
    /\ pc = "resolve"
    /\ CurJob.kind = "hash"
    /\ CurJob.table = "QST_TaskTalk"
    /\ num_fields(tables["QST_TaskTalk"]) = 4
    /\ IsTuple(tables["QST_TaskTalk"].rows[1][2])
    /\ IsTuple(tables["QST_TaskTalk"].rows[1][3])

\* the cell shows an unresolved placeholder <HHHHHHHH> that one table
\* construction alone has claimed
ShowsOwnedHash(tabs, c) ==
    LET v == get(tabs[c[1]], c[2], c[3])
    IN /\ tabs[c[1]].fields[c[3] + 1].value_type = "HSTRING"
       /\ IsStr(v)
       /\ hash_re_match(v[2])
       /\ global_id_lookup(global_hashmap, v) # NoEntry

----------------------------------------------------------------------------
\* the entry an addref call registers, and the row it registers it on
ref_entry == <<call.args[2], call.args[3], call.args[4]>>
ref_target == call.args[1] + 1

\* C14: after table.addref(row, ref_name, ref_row, ref_value) the set of the
\* row holds what it held before and the entry (ref_name, ref_row,
\* ref_value), once: a call with an entry the set already holds leaves the
\* set as it was.  The sets of the other rows and all cells are as before.
C14_AddrefIsIdempotent ==
    (call.op = "addref" /\ call.err = "") =>
        /\ Self.refs[ref_target] = call.old.refs[ref_target] \cup {ref_entry}
        /\ Cardinality(Self.refs[ref_target]) =
              Cardinality(call.old.refs[ref_target])
                 + (IF ref_entry \in call.old.refs[ref_target] THEN 0 ELSE 1)
        /\ \A i \in 1..num_rows(Self) : i # ref_target => Self.refs[i] = call.old.refs[i]
        /\ Self.rows = call.old.rows
        /\ Self.hashid_map = call.old.hashid_map

\* an entry is registered on a row that holds it and another entry already
C14_Witness ==
    /\ call.op = "addref"
    /\ call.err = ""
    /\ ref_entry \in call.old.refs[ref_target]
    /\ Cardinality(Self.refs[ref_target]) = 2

----------------------------------------------------------------------------
\* the tables read so far, as <<position on the command line, position in the file>>
ReadSoFar ==
    UNION {{<<i, k>> : k \in 1..Len(disk[args[i]].tables)} :
              i \in 1..(Len(args) - Len(files))}
TableRead(p) == disk[args[p[1]]].tables[p[2]]
ReadLater(p, q) == p[1] > q[1] \/ (p[1] = q[1] /\ p[2] > q[2])

\* C15: while the files are read, the collection holds under every name read
\* so far the table of that name that was read last, be it from a later file
\* or later in the same file, and holds no other name; a run that stops
\* in the loop stops at a file that cannot be parsed or constructed, never
\* at one that repeats a name.
C15_LastLoadedWins ==
    /\ pc \in {"parse", "loaded"} =>
          /\ DOMAIN tables = {TableRead(p).name : p \in ReadSoFar}
          /\ \A p \in ReadSoFar :
                (\A q \in ReadSoFar : TableRead(q).name = TableRead(p).name => ~ReadLater(q, p))
                   => tables[TableRead(p).name] =
                         BdatTable(TableRead(p).name, TableRead(p).fields, TableRead(p).rows)
    /\ (pc = "failed" /\ runs = 0) =>
          \/ ~disk[Head(files)].ok
          \/ \E k \in 1..Len(disk[Head(files)].tables) :
                Len(disk[Head(files)].tables[k].fields) < 2

\* FLD_NpcResource has been read three times, from an earlier file and twice
\* from the last one, and the collection has the third
C15_Witness ==
    /\ pc = "loaded"
    /\ disk["dlc"] = DlcFileTwice
    /\ args = AllFiles \o <<"dlc">>
    /\ tables["FLD_NpcResource"].rows[1][3] = IntV(2)
    /\ "FLD_NpcList" \in DOMAIN tables

----------------------------------------------------------------------------
\* a file of the command line is one of which Bdat._parse raises ValueError
HasBadFile == \E i \in 1..Len(args) : ~disk[args[i]].ok

\* C16: when a file of the command line cannot be parsed, main never gets
\* past its loop over the files: resolve_xrefs is not called and no table is
\* written, whatever was read before the file.  Reading the file ends the
\* run with the ValueError of Bdat._parse, and nothing happens after that.
C16_ParseErrorEndsBatch ==
    /\ [](HasBadFile => (pc \in {"parse", "failed"} /\ runs = 0 /\ written = {}))
    /\ [][/\ (pc = "parse" /\ files # <<>> /\ ~disk[Head(files)].ok) =>
                (pc' = "failed" /\ err' = "ValueError" /\ tables' = tables)
          /\ pc # "failed"]_vars

\* the run has ended at the last file of the command line, with BTL_LvRev
\* and the other tables read, none of them resolved or written
C16_Witness ==
    /\ pc = "failed"
    /\ err = "ValueError"
    /\ Len(files) = 1
    /\ ~disk[Head(files)].ok
    /\ wants_xrefs(tables)
    /\ Cardinality(DOMAIN tables) > 5
    /\ runs = 0
    /\ written = {}

----------------------------------------------------------------------------
\* the file _parse was called on, read as the statement reads it
Data == call.args[1]
Word(k) == Data[k + 1] + 256 * (Data[k + 2] + 256 * (Data[k + 3] + 256 * Data[k + 4]))
Versioned == Len(Data) >= 4 /\ <<Data[1], Data[2], Data[3], Data[4]>> = <<66, 68, 65, 84>>
Preamble == IF Versioned THEN 8 ELSE 0
\* the four faults of the statement
HeaderFault ==
    \/ Len(Data) < 4
    \/ Versioned /\ Len(Data) < 12
    \/ Versioned /\ Word(4) # 16781316
    \/ Word(Preamble) = 0
    \/ Len(Data) < Preamble + 8 + 4 * Word(Preamble)
\* one table per offset, in the order of the offset array
TablePerOffset ==
    /\ call.err = ""
    /\ call.result[1] = "list"
    /\ call.result[2] = (IF Versioned THEN 2 ELSE 1)
    /\ Len(call.result[3]) = Word(Preamble)
    /\ \A i \in 1..Word(Preamble) :
          call.result[3][i] = <<call.result[2], Word(Preamble + 8 + 4 * (i - 1))>>
\* the header of the table at the offset is one the table parser of the layout accepts
TableFault(at) ==
    \/ Len(Data) < at + (IF Versioned THEN 48 ELSE 36)
    \/ <<Data[at + 1], Data[at + 2], Data[at + 3], Data[at + 4]>> # <<66, 68, 65, 84>>
    \/ Versioned /\ Word(at + 4) # 12292

----------------------------------------------------------------------------
\* the tables read that are in the collection as the table parser made them
\* or as the rules have changed them since
ParsedTables == {p \in ReadSoFar : "base_id" \in DOMAIN TableRead(p)}

\* C18: in a table made by _parseTable1 or _parseTable2 the first cell of the
\* row at index i is base_id + i, so that the row IDs of a table grow with
\* the row index and no two rows have the same; a call of resolve_xrefs
\* leaves the first cell of every row of every table as it found it.
C18_RowIdIsBasePlusIndex ==
    /\ \A p \in ParsedTables :
          LET t == tables[TableRead(p).name]
          IN /\ \A i \in 1..num_rows(t) : t.rows[i][1] = IntV(TableRead(p).base_id + (i - 1))
             /\ \A i, k \in 1..num_rows(t) : i < k => t.rows[i][1][2] < t.rows[k][1][2]
    /\ runs > 0 =>
          \A n \in DOMAIN tables : \A i \in 1..num_rows(tables[n]) :
              tables[n].rows[i][1] = orig[n].rows[i][1]

\* resolve_xrefs has returned on tables of both layouts with rows numbered
\* from 5, having made cross-references of cells in both
C18_Witness ==
    /\ pc = "print"
    /\ runs = 1
    /\ args = AllFiles \o <<"dlc">>
    /\ disk["dlc"] = OldFile(5, 1)
    /\ tables["EVT_Old"].rows[1][2][1] = "link"
    /\ tables["QST_TaskTalk"].rows[2][2][1] = "link"
    /\ tables["QST_TaskTalk"].rows[2][1] = IntV(6)

\* C19: every row of every table of the collection has as many cells as the
\* table has fields, and every cell of an array field is an array of
\* array_size elements, before, during and after resolve_xrefs.
C19_RowShape ==
    \A n \in DOMAIN tables : \A i \in 1..num_rows(tables[n]) :
        /\ Len(tables[n].rows[i]) = num_fields(tables[n])
        /\ \A f \in 1..num_fields(tables[n]) :
              array_size(tables[n].fields[f]) > 0 =>
                 /\ tables[n].rows[i][f][1] = "tuple"
                 /\ Len(tables[n].rows[i][f]) - 1 = array_size(tables[n].fields[f])

----------------------------------------------------------------------------
\* C20: table.id_to_row(id) does not raise.  For an integer id it returns
\* id - base_id when that is the index of a row and None when it is not, as
\* it is for every id when the table has no rows; for a hashed ID it returns
\* the row index the table's ID map has for it, or None when it has none.
C20_IdToRowNeverRaises ==
    call.op = "id_to_row" =>
        LET id == call.args[1]
            found(r) == call.err = "" /\ call.result = IntV(r)
        IN IF IsInt(id)
           THEN IF \E i \in 1..num_rows(Self) : Self.rows[i][1] = id
                THEN found(id[2] - Self.rows[1][1][2])
                ELSE found(NoRow)
           ELSE IF id \in DOMAIN Self.hashid_map
                THEN found(Self.hashid_map[id])
                ELSE found(NoRow)

----------------------------------------------------------------------------
\* C21: in every row of a table made by _parseTable1 the cell of a flag field
\* is (raw & mask) != 0, raw being the value of the flag's parent field in
\* that row, wherever the descriptor of the flag stands among the
\* descriptors; mask 4 gives true for the value 6 and false for the value 1.
C21_FlagReadsItsParent ==
    (call.op = "_parseTable1" /\ call.n = 1) =>
        /\ call.err = ""
        /\ \A i \in 1..Len(call.result[3]) : \A f \in 1..Len(call.args[1]) :
              LET d == call.args[1][f]
                  raw == call.args[2][2 * (i - 1) + 1]
              IN d.field_type = "FLAG" =>
                    call.result[3][i][f + 1] = <<"bool", (raw \div d.flag_mask) % 2 = 1>>

----------------------------------------------------------------------------
\* the buffer, the region and the key of the first call of _decrypt, and the
\* buffer as the last call left it
Buffer == call.args[1]
RegionAt == call.args[2]
RegionSize == call.args[3]
Key == call.args[4]
Left == call.result[2]

\* the sum of the bytes of the buffer at region offsets j, j + 2, .. below k
RECURSIVE FedBefore(_, _)
FedBefore(j, k) == IF j >= k THEN 0 ELSE Buffer[RegionAt + j + 1] + FedBefore(j + 2, k)

\* C22: one call of _decrypt on a region of odd size raises ValueError and
\* leaves the buffer as it was.  On a region of even size it leaves the
\* bytes outside the region as they were and the byte at region offset k as
\* the XOR of what it was and the accumulator of its place in the pair: 255
\* less the high byte of the key (first of a pair) or less the low byte
\* (second) plus the bytes of that place in the pairs before, as they were
\* before the call, modulo 256.
C22_DecryptPairs ==
    (call.op = "_decrypt" /\ call.n = 1) =>
        IF RegionSize % 2 = 1
        THEN call.err = "ValueError" /\ Left = Buffer
        ELSE /\ call.err = ""
             /\ Len(Left) = Len(Buffer)
             /\ \A k \in 1..Len(Buffer) :
                   (k <= RegionAt \/ k > RegionAt + RegionSize) => Left[k] = Buffer[k]
             /\ \A k \in 0..(RegionSize - 1) :
                   LET seed == IF k % 2 = 0 THEN 255 - (Key \div 256) ELSE 255 - (Key % 256)
                   IN Left[RegionAt + k + 1] =
                         BitXor(Buffer[RegionAt + k + 1], (seed + FedBefore(k % 2, k)) % 256)

\* _decrypt has returned on a region of two pairs inside the buffer, the
\* accumulators fed with bytes that are not 0
C22_Witness ==
    /\ call.op = "_decrypt"
    /\ call.n = 1
    /\ call.err = ""
    /\ call.old = <<>>
    /\ RegionSize = 4
    /\ Key = 4660
    /\ Buffer = <<90, 255, 90, 0>>
    /\ Left = <<183, 52, 29, 202>>

----------------------------------------------------------------------------
\* C23: _decrypt on a region that was encrypted with the same key (each pair
\* XORed with the accumulators, the bytes written added to them) leaves the
\* buffer as it was before the encryption; and no other buffer of the same
\* length is left by _decrypt, on the same region with the same key, as the
\* buffer of this call is left.
C23_DecryptUndoesEncrypt ==
    (call.op = "_decrypt" /\ call.n = 1 /\ call.err = "") =>
        /\ call.old # <<>> => Left = call.old
        /\ \A other \in CipherData :
              other # Buffer => decrypt(other, RegionAt, RegionSize, Key).data # Left

\* a region of two pairs has been encrypted, which changed it, and decrypted
C23_Witness ==
    /\ call.op = "_decrypt"
    /\ call.n = 1
    /\ call.err = ""
    /\ call.old # <<>>
    /\ RegionSize = 4
    /\ Key = 4660
    /\ \A k \in 1..4 : Buffer[k] # call.old[k]
    /\ Left = call.old

\* C24: two calls of _decrypt with one key on one region do not in general
\* leave the buffer as it was: they do when the region has one pair at most
\* or the key is 0xFFFF (both accumulators start at 0), and in no other case,
\* the accumulators of the second call being fed with the bytes the first
\* call wrote.
C24_TwiceIsNotIdentity ==
    (call.op = "_decrypt" /\ call.n = 2 /\ call.err = "") =>
        (Left = Buffer <=> (RegionSize <= 2 \/ Key = 65535))

\* _decrypt has been called twice on two pairs and the second pair is not
\* what it was, while the first is
C24_Witness ==
    /\ call.op = "_decrypt"
    /\ call.n = 2
    /\ call.err = ""
    /\ call.old = <<>>
    /\ RegionAt = 0
    /\ RegionSize = 4
    /\ Left[1] = Buffer[1]
    /\ Left[2] = Buffer[2]
    /\ Left[3] # Buffer[3]
    /\ Left[4] # Buffer[4]

----------------------------------------------------------------------------
\* the string the dictionary "hashes" has for the name value, if it has one
Resolved == call.args[1] \in {576023058}
\* the file name less the extension ".bdat", where it ends in it
LessBdat ==
    LET name == basename(call.args[2])
    IN IF Len(name) >= 5 /\ SubSeq(name, Len(name) - 4, Len(name)) = ".bdat"
       THEN SubSeq(name, 1, Len(name) - 5) ELSE name

\* C25, as stated: the name of a version 2 table is the base name of the file
\* with its extension stripped when the name value is 0, the string of the
\* hash when "hashes" has one, and otherwise the eight upper-case
\* hexadecimal digits of the value between angle brackets.
C25_NameAsStated ==
    (call.op = "table_name" /\ call.n = 1) =>
        call.result =
            StrV(IF call.args[1] = 0 THEN Stems[call.args[2]]
                 ELSE IF Resolved THEN "gimmickEnemyAff"
                 ELSE "<" \o HexN(call.args[1], 8) \o ">")

\* C25, amended: the name is the string of the hash when "hashes" has one,
\* and otherwise the eight upper-case hexadecimal digits of the value, with
\* no brackets; when the name value is 0 it is the base name of the file
\* with ".bdat" removed, which for a file name that ends in ".bdat" and has
\* no other ".bdat" in it is the name less that extension.
C25_NameIsBareHex ==
    (call.op = "table_name" /\ call.n = 1) =>
        /\ (call.args[1] # 0 /\ Resolved) => call.result = StrV("gimmickEnemyAff")
        /\ (call.args[1] # 0 /\ ~Resolved) =>
              /\ call.result = StrV(HexN(call.args[1], 8))
              /\ Len(call.result[2]) = 8
        /\ (call.args[1] = 0 /\ call.args[2] \notin {"x.bdat.bdat", "a.bdatb.bdat"}) =>
              call.result = StrV(LessBdat)
        /\ (call.args[1] = 0 /\ call.args[2] = "a.bdatb.bdat") => call.result = StrV("ab")
        /\ (call.args[1] = 0 /\ call.args[2] = "x.bdat.bdat") => call.result = StrV("x")

\* a table of a hash "hashes" has None for has been named
C25_Witness ==
    /\ call.op = "table_name"
    /\ call.n = 1
    /\ call.args[1] = 496655147
    /\ call.result = StrV("1D9A5B2B")

----------------------------------------------------------------------------
\* C26: main calls resolve_xrefs when the collection it has read has a table
\* named BTL_LvRev, and only then.  When it has none, the tables are written
\* as they were read: no cell is a cross-reference and no row has a
\* back-reference, whatever the fields of the tables are.
C26_ResolveOnlyWithLvRev ==
    /\ runs > 0 => "BTL_LvRev" \in DOMAIN tables
    /\ pc \in {"print", "done"} =>
          IF "BTL_LvRev" \in DOMAIN tables THEN runs = 1
          ELSE /\ runs = 0
               /\ \A n \in DOMAIN tables : \A i \in 1..num_rows(tables[n]) :
                     /\ tables[n].refs[i] = {}
                     /\ \A f \in 1..num_fields(tables[n]) : tables[n].rows[i][f][1] # "link"

\* the files but the one of BTL_LvRev have been read and written, with the
\* tables the rules are about among them
C26_Witness ==
    /\ pc = "done"
    /\ "BTL_LvRev" \notin DOMAIN tables
    /\ {"QST_TaskTalk", "FLD_NpcList", "BTL_Achievement", "MNU_ShopTable"} \subseteq DOMAIN tables
    /\ written = DOMAIN tables
    /\ runs = 0

----------------------------------------------------------------------------
\* C27: while main runs, every entry id -> (T, r) of the global ID index
\* that is not invalidated names a table T of the collection that has a row
\* at index r, and the hashed ID of that row is id.
C27_IndexMatchesCollection ==
    pc # "failed" =>
        \A id \in DOMAIN global_hashmap :
            global_hashmap[id] # <<"", -1>> =>
                LET T == global_hashmap[id][1]
                    r == global_hashmap[id][2]
                IN /\ T \in DOMAIN tables
                   /\ r < num_rows(tables[T])
                   /\ tables[T].rows[r + 1][2] = id

----------------------------------------------------------------------------
\* C28: BdatTable() on a field list that holds the ID field alone returns a
\* table with an empty hashed-ID map, so that the file of such a table is
\* read like any other; and a table of the collection has a hashed-ID map
\* with entries only when its field 1 is named ID or label and is a
\* HashedString.
C28_IdOnlyTableIsBuilt ==
    /\ (pc = "failed" /\ runs = 0) => ~disk[Head(files)].ok
    /\ \A p \in ReadSoFar :
          Len(TableRead(p).fields) = 1 =>
             /\ TableRead(p).name \in DOMAIN tables
             /\ tables[TableRead(p).name].hashid_map = <<>>
    /\ \A n \in DOMAIN tables :
          tables[n].hashid_map # <<>> =>
             /\ tables[n].fields[2].name \in {"ID", "label"}
             /\ tables[n].fields[2].value_type = "HSTRING"

----------------------------------------------------------------------------
\* C29: table.get(row, field) returns the cell as it is stored, whatever the
\* kind of the field, the whole array for a cell of an array field; only
\* for a cell that set() has made a cross-reference does it return the
\* first of the three components, the display value.
C29_GetReturnsStoredValue ==
    (call.op = "get" /\ call.err = "") =>
        LET stored == Self.rows[call.args[1] + 1][call.args[2] + 1]
        IN call.result = IF stored[1] = "link" THEN stored[2] ELSE stored

----------------------------------------------------------------------------
\* C30: when the text rule of BTL_Achievement.Caption, with its special rule
\* 'achievement', links a row to a text, the value shown in the cell is the
\* text followed by " (Param1)" when the row's AchieveType is at most 7, by
\* " (Param2)" when it is greater than 7 and not 255, and by nothing when it
\* is 255, Param1 and Param2 being the values of the row's own fields.
C30_AchievementSuffix ==
    [][(/\ FieldStep
        /\ CurJob.kind = "text"
        /\ CurJob.target.special = "achievement"
        /\ cur_value # IntV(0)
        /\ Cardinality(matching(tables, CurJob.target, cur_value)) = 1
        /\ tables'[CurJob.table].rows[row + 1][cur_cell[3] + 1][1] = "link") =>
        LET table == tables[CurJob.table]
            AchieveType == table.rows[row + 1][field_index(table, "AchieveType") + 1]
            Param1 == table.rows[row + 1][field_index(table, "Param1") + 1]
            Param2 == table.rows[row + 1][field_index(table, "Param2") + 1]
            target_table == tables[CurJob.target.tables[1]]
            target_row == CHOOSE r \in rows_with_id(target_table, cur_value) : TRUE
            text == target_table.rows[target_row + 1]
                        [field_index(target_table, CurJob.target.field) + 1]
            shown == tables'[CurJob.table].rows[row + 1][cur_cell[3] + 1][2]
        IN shown = IF AchieveType[2] <= 7
                   THEN StrV(text[2] \o " (" \o ToString(Param1[2]) \o ")")
                   ELSE IF AchieveType[2] # 255
                   THEN StrV(text[2] \o " (" \o ToString(Param2[2]) \o ")")
                   ELSE text]_vars

====
